---- MODULE Spec2Model ----
(***************************************************************************)
(* A model of the analysis pipeline of HysAnalysis.py (class               *)
(* HysteresisAnalyzer): data cleaning, loop segmentation, first-loop       *)
(* filtering, skeleton extraction, ductility methods, the control flow of  *)
(* curve smoothing, and the stored analysis state of the window.           *)
(*                                                                         *)
(* Numbers.  Every displacement and force sample is an integer number of   *)
(* thousandths (1 unit = 0.001), so the literal 0.001 of the source is 1   *)
(* unit and 0.01 is 10 units.  Products with the factors 0.001, 0.005,     *)
(* 0.01, 0.1, 0.5, 0.6, 0.75 and 0.08 are never rounded: every comparison  *)
(* is cross-multiplied to an exact integer comparison.  Quotients are      *)
(* exact fractions <<numerator, denominator>> in lowest terms with a       *)
(* positive denominator.  Floating-point rounding is not modelled.         *)
(***************************************************************************)
EXTENDS Integers, Sequences, FiniteSets, TLC

VARIABLES
    pc,            \* position of the run that is being checked
    in_disp,       \* input displacement series of the operation under check
    in_force,      \* input force series of the operation under check
    out,           \* results of the operation under check (a record)
    algorithm,     \* smooth_algorithm: the selected smoothing algorithm
    smoothness,    \* smoothness_spinbox: its value in hundredths
    num_points,    \* interp_points: the selected number of points
    plot_style,    \* "line" (rb_line) or "smooth" (rb_smooth)
    show_original_points,   \* check box
    canvas,        \* what update_plot drew last, <<>> before the first draw
    current_data,        \* the loaded series, with its optional filtered copy
    filter_first_loop,   \* check box
    skeleton_method,     \* "outer_envelope" or "peak_points"
    direction,           \* "both", "positive" or "negative"
    ductility_method,    \* one of DuctilityMethods
    hysteresis_loops,    \* the stored loop list
    skeleton_curve,      \* the stored skeleton, <<>> for None
    indices              \* the stored metric set: a function of its keys

----------------------------------------------------------------------------
(* Arithmetic helpers *)

Abs(v) == IF v < 0 THEN -v ELSE v

Max(a, b) == IF a >= b THEN a ELSE b

Min(a, b) == IF a <= b THEN a ELSE b

RECURSIVE GCD(_, _)
GCD(a, b) == IF b = 0 THEN a ELSE GCD(b, a % b)

(* n / d as a fraction in lowest terms, d # 0 *)
Frac(n, d) ==
    LET g == GCD(Abs(n), Abs(d))
        s == IF d < 0 THEN -1 ELSE 1
    IN  <<(s * n) \div g, (s * d) \div g>>

One == <<1, 1>>

Zero == <<0, 1>>

FLess(p, q) == p[1] * q[2] < q[1] * p[2]

FLeq(p, q) == p[1] * q[2] <= q[1] * p[2]

FAdd(p, q) == Frac(p[1] * q[2] + q[1] * p[2], p[2] * q[2])

FAbs(p) == <<Abs(p[1]), p[2]>>

(* an array built element by element, as a sequence value *)
AsSeq(f) == SubSeq(f, 1, Len(f))

(* np.abs over an array *)
AbsSeq(s) == AsSeq([i \in 1..Len(s) |-> Abs(s[i])])

SeqMax(s) == CHOOSE v \in {s[i] : i \in 1..Len(s)} :
                 \A i \in 1..Len(s) : s[i] <= v

SeqMin(s) == CHOOSE v \in {s[i] : i \in 1..Len(s)} :
                 \A i \in 1..Len(s) : s[i] >= v

(* np.argmax / np.argmin: the first index holding the extreme value *)
ArgMax(s) == CHOOSE i \in 1..Len(s) :
                 /\ \A j \in 1..Len(s) : s[j] <= s[i]
                 /\ \A j \in 1..(i - 1) : s[j] < s[i]

ArgMin(s) == CHOOSE i \in 1..Len(s) :
                 /\ \A j \in 1..Len(s) : s[j] >= s[i]
                 /\ \A j \in 1..(i - 1) : s[j] > s[i]

(* the elements of s at the ascending positions listed in idx *)
Pick(s, idx) == AsSeq([k \in 1..Len(idx) |-> s[idx[k]]])

(* sorted(S) for a finite set S of integers: its members in ascending      *)
(* order                                                                   *)
SortedSeq(S) ==
    IF S = {} THEN <<>>
    ELSE LET top == CHOOSE v \in S : \A w \in S : w <= v
             bot == CHOOSE v \in S : \A w \in S : w >= v
         IN  SelectSeq([i \in 1..(top - bot + 1) |-> bot + i - 1],
                       LAMBDA v : v \in S)

----------------------------------------------------------------------------
(* SeriesPreprocessor: preprocess_data *)

PreDispFloor == 1       \* 0.001

PreForceFloor == 10     \* 0.01

(* 1000 * max(floor, range * 0.001), range = max|v| - min|v| *)
PreThreshold1000(floor, series) ==
    LET a == AbsSeq(series)
    IN  Max(1000 * floor, SeqMax(a) - SeqMin(a))

(* is_near_zero(value, threshold): abs(value) < threshold *)
is_near_zero(value, threshold1000) == 1000 * Abs(value) < threshold1000

Snap(series, threshold1000) ==
    AsSeq([i \in 1..Len(series) |->
              IF is_near_zero(series[i], threshold1000) THEN 0 ELSE series[i]])

(* The dict disp_to_max_force_idx is a sequence of entries [k, idx] in      *)
(* insertion order.                                                        *)
DictDel(dict, k) == SelectSeq(dict, LAMBDA e : e.k # k)

DictPut(dict, k, idx) ==
    IF \E j \in 1..Len(dict) : dict[j].k = k
    THEN [j \in 1..Len(dict) |->
            IF dict[j].k = k THEN [k |-> k, idx |-> idx] ELSE dict[j]]
    ELSE Append(dict, [k |-> k, idx |-> idx])

(* abs(current_disp - stored_disp) <= tolerance, tolerance = 0.5 * threshold *)
WithinTolerance(a, b, threshold1000) == 2000 * Abs(a - b) <= threshold1000

(* faulty variant: the stored key deleted, the new key never inserted *)
DedupStepDropOnly(dc, fc, i, dict, threshold1000) ==
    LET similar == {j \in 1..Len(dict) :
                        WithinTolerance(dc[i], dict[j].k, threshold1000)}
    IN  IF similar = {} THEN DictPut(dict, dc[i], i)
        ELSE LET j == CHOOSE m \in similar : \A n \in similar : m <= n
             IN  IF Abs(fc[i]) > Abs(fc[dict[j].idx])
                 THEN DictDel(dict, dict[j].k)
                 ELSE dict

(* One iteration i of the deduplication loop *)
DedupStep(dc, fc, i, dict, threshold1000) ==
    LET similar == {j \in 1..Len(dict) :
                        WithinTolerance(dc[i], dict[j].k, threshold1000)}
    IN  IF similar = {} THEN DictPut(dict, dc[i], i)
        ELSE LET j == CHOOSE m \in similar : \A n \in similar : m <= n
                 stored == dict[j]
             IN  IF Abs(fc[i]) > Abs(fc[stored.idx])
                 THEN DictPut(DictDel(dict, stored.k), dc[i], i)
                 ELSE dict

(* the iterations lo .. hi of the loop in order, from the dictionary dict;  *)
(* the range is halved, and the first half is evaluated before the second   *)
(* half is entered, so that the evaluation stays shallow                    *)
RECURSIVE DedupLoop(_, _, _, _, _, _)
DedupLoop(dc, fc, lo, hi, dict, threshold1000) ==
    IF lo > hi THEN dict
    ELSE IF lo = hi THEN DedupStep(dc, fc, lo, dict, threshold1000)
    ELSE LET mid == (lo + hi) \div 2
             half == DedupLoop(dc, fc, lo, mid, dict, threshold1000)
         IN  IF Len(half) >= 0
             THEN DedupLoop(dc, fc, mid + 1, hi, half, threshold1000)
             ELSE half

(* loading_start_idx (0-based in the source, 1-based here): the first sample *)
(* beyond twice a threshold in either channel, else the first sample        *)
LoadingStart(dc, fc, dthr1000, fthr1000) ==
    LET hits == {i \in 1..Len(dc) :
                    \/ 1000 * Abs(dc[i]) > 2 * dthr1000
                    \/ 1000 * Abs(fc[i]) > 2 * fthr1000}
    IN  IF hits = {} THEN 1 ELSE CHOOSE i \in hits : \A j \in hits : i <= j

(* faulty variant: the kept positions in ascending order of their keys *)
unique_indices_by_key(displacement, force) ==
    LET dthr == PreThreshold1000(PreDispFloor, displacement)
        fthr == PreThreshold1000(PreForceFloor, force)
        dc   == Snap(displacement, dthr)
        fc   == Snap(force, fthr)
        dict == DedupLoop(dc, fc, 1, Len(dc), <<>>, dthr)
        keys == SortedSeq({dict[j].k : j \in 1..Len(dict)})
    IN  [n \in 1..Len(keys) |->
            (CHOOSE e \in {dict[j] : j \in 1..Len(dict)} : e.k = keys[n]).idx]

(* unique_indices: the positions the deduplication keeps, ascending *)
unique_indices(displacement, force) ==
    LET dthr == PreThreshold1000(PreDispFloor, displacement)
        fthr == PreThreshold1000(PreForceFloor, force)
        dc   == Snap(displacement, dthr)
        fc   == Snap(force, fthr)
        dict == DedupLoop(dc, fc, 1, Len(dc), <<>>, dthr)
    IN  SortedSeq({dict[j].idx : j \in 1..Len(dict)})

preprocess_data(displacement, force) ==
    LET dthr == PreThreshold1000(PreDispFloor, displacement)
        fthr == PreThreshold1000(PreForceFloor, force)
        dc   == Snap(displacement, dthr)
        fc   == Snap(force, fthr)
        kept == unique_indices(displacement, force)
        dd   == Pick(dc, kept)
        ff   == Pick(fc, kept)
        ls   == LoadingStart(dd, ff, dthr, fthr)
    IN  [displacement |->
             IF ls > 1 THEN AsSeq([i \in 1..Len(dd) |-> dd[i] - dd[ls]])
             ELSE dd,
         force |-> ff]

(* the deduplication tolerance of one call, times 2000 *)
PreTolerance2000(displacement) == PreThreshold1000(PreDispFloor, displacement)

----------------------------------------------------------------------------
(* LoopSegmenter: calculate_loop_area, extract_hysteresis_loops *)

FSub(p, q) == Frac(p[1] * q[2] - q[1] * p[2], p[2] * q[2])

FMul(p, q) == Frac(p[1] * q[1], p[2] * q[2])

(* p / q, q # 0 *)
FDiv(p, q) == Frac(p[1] * q[2], p[2] * q[1])

FInt(n) == <<n, 1>>

FSeq(s) == AsSeq([i \in 1..Len(s) |-> FInt(s[i])])

(* sum over i of 0.5 * (force[i] + force[i+1]) * (displacement[i+1] -       *)
(* displacement[i]); force holds fractions                                 *)
TrapezoidTerm(displacement, force, i) ==
    FMul(FMul(<<1, 2>>, FAdd(force[i], force[i + 1])),
         FInt(displacement[i + 1] - displacement[i]))

(* the terms lo .. hi - 1 of the sum, added pairwise *)
RECURSIVE TrapezoidRange(_, _, _, _)
TrapezoidRange(displacement, force, lo, hi) ==
    IF lo >= hi THEN Zero
    ELSE IF hi = lo + 1 THEN TrapezoidTerm(displacement, force, lo)
    ELSE LET mid == (lo + hi) \div 2
         IN  FAdd(TrapezoidRange(displacement, force, lo, mid),
                  TrapezoidRange(displacement, force, mid, hi))

TrapezoidSum(displacement, force, i) ==
    TrapezoidRange(displacement, force, i, Len(displacement))

(* faulty variant: the signed trapezoidal sum, abs() forgotten *)
calculate_loop_area_signed(displacement, force) ==
    TrapezoidSum(displacement, force, 1)

calculate_loop_area(displacement, force) ==
    FAbs(TrapezoidSum(displacement, force, 1))

(* the peaks list of extract_hysteresis_loops: positions (1-based) in index  *)
(* order, with their kind                                                  *)
IsLocalMax(s, i) == s[i] > s[i - 1] /\ s[i] > s[i + 1]

IsLocalMin(s, i) == s[i] < s[i - 1] /\ s[i] < s[i + 1]

(* faulty variant: the sign of the extremum not tested *)
LoopPeakKindUnsigned(displacement, i) ==
    IF IsLocalMax(displacement, i) THEN "positive"
    ELSE IF IsLocalMin(displacement, i) THEN "negative"
    ELSE "none"

LoopPeakKind(displacement, i) ==
    IF IsLocalMax(displacement, i) THEN
        (IF displacement[i] > 0 THEN "positive" ELSE "none")
    ELSE IF IsLocalMin(displacement, i) THEN
        (IF displacement[i] < 0 THEN "negative" ELSE "none")
    ELSE "none"

LoopPeaks(displacement) ==
    SortedSeq({i \in 2..(Len(displacement) - 1) :
                  LoopPeakKind(displacement, i) # "none"})

MinLoopSamples == 3     \* len(loop_disp) > 2

RECURSIVE BuildLoops(_, _, _, _)
BuildLoops(displacement, force, peaks, k) ==
    IF k >= Len(peaks) THEN <<>>
    ELSE LET start_idx == peaks[k]
             end_idx   == peaks[k + 1]
             loop_disp  == SubSeq(displacement, start_idx, end_idx)
             loop_force == SubSeq(force, start_idx, end_idx)
             rest == BuildLoops(displacement, force, peaks, k + 1)
         IN  IF Len(loop_disp) >= MinLoopSamples
             THEN <<[displacement |-> loop_disp,
                     force |-> loop_force,
                     peak_disp |-> displacement[start_idx],
                     peak_force |-> force[start_idx],
                     area |-> calculate_loop_area(loop_disp, FSeq(loop_force)),
                     type |-> LoopPeakKind(displacement, start_idx)]>> \o rest
             ELSE rest

(* the loop list extract_hysteresis_loops builds from its working series *)
SegmentLoops(displacement, force) ==
    BuildLoops(displacement, force, LoopPeaks(displacement), 1)

(* faulty variant: every loop starts one sample before its first peak *)
LoopSpansWithLead(displacement) ==
    LET peaks == LoopPeaks(displacement)
    IN  SelectSeq([k \in 1..(Len(peaks) - 1) |->
                      <<peaks[k] - 1, peaks[k + 1]>>],
                  LAMBDA span : span[2] + 1 - span[1] >= MinLoopSamples)

(* <<start_idx, end_idx>> (1-based) of the loops extract_hysteresis_loops   *)
(* appends, in order                                                       *)
LoopSpans(displacement) ==
    LET peaks == LoopPeaks(displacement)
    IN  SelectSeq([k \in 1..(Len(peaks) - 1) |-> <<peaks[k], peaks[k + 1]>>],
                  LAMBDA span : span[2] + 1 - span[1] >= MinLoopSamples)

----------------------------------------------------------------------------
(* LoopSegmenter: filter_first_loops *)

FilterTolerancePct == 8     \* tolerance = 0.08

FilterWindow == 50          \* first_peak - 50, first_peak + 50

(* peaks_indices: the strict local maxima of |displacement|, in index order *)
FilterPeaks(displacement) ==
    LET a == AbsSeq(displacement)
    IN  SortedSeq({i \in 2..(Len(a) - 1) : IsLocalMax(a, i)})

(* abs(peak_values[j] - peak_val) <= tolerance * peak_val *)
SameLevel(other_val, peak_val) ==
    100 * Abs(other_val - peak_val) <= FilterTolerancePct * peak_val

(* the grouping loop from position i of peaks_indices on; used holds the    *)
(* positions already placed in a group; the result is the list of groups,   *)
(* each a list of series indices                                           *)
RECURSIVE GroupLoop(_, _, _, _)
GroupLoop(a, peaks, i, used) ==
    IF i > Len(peaks) THEN <<>>
    ELSE IF i \in used THEN GroupLoop(a, peaks, i + 1, used)
    ELSE LET members == {j \in (i + 1)..Len(peaks) :
                            /\ j \notin used
                            /\ SameLevel(a[peaks[j]], a[peaks[i]])}
             group == <<peaks[i]>> \o SortedSeq({peaks[j] : j \in members})
         IN  <<group>> \o GroupLoop(a, peaks, i + 1, used \cup members)

FilterGroups(displacement) ==
    GroupLoop(AbsSeq(displacement), FilterPeaks(displacement), 1, {})

(* faulty variant: the window with its upper end included *)
KeepWindowClosed(first_peak, n) ==
    {i \in 1..n : /\ i >= first_peak - FilterWindow
                  /\ i <= first_peak + FilterWindow}

(* range(max(0, first_peak - 50), min(len, first_peak + 50)) of the source, *)
(* whose indices are 0-based and whose range excludes its end, as a set of  *)
(* 1-based indices                                                         *)
KeepWindow(first_peak, n) ==
    {i \in 1..n : /\ i >= first_peak - FilterWindow
                  /\ i < first_peak + FilterWindow}

SeqMinOf(group) == SeqMin(group)

KeepIndices(displacement) ==
    LET groups == FilterGroups(displacement)
    IN  UNION {KeepWindow(SeqMinOf(groups[g]), Len(displacement)) :
                  g \in 1..Len(groups)}

filter_first_loops(displacement, force) ==
    LET keep_list == SortedSeq(KeepIndices(displacement))
    IN  IF FilterPeaks(displacement) = <<>> \/ keep_list = <<>>
        THEN [displacement |-> displacement, force |-> force]
        ELSE [displacement |-> Pick(displacement, keep_list),
              force |-> Pick(force, keep_list)]

----------------------------------------------------------------------------
(* SkeletonExtractor: extract_outer_envelope, extract_peak_points *)

SkelFloor == 10         \* 0.01

(* faulty variant: 0.5 in place of 0.005 *)
OuterDispThresholdHalf(displacement) ==
    Max(1000 * SkelFloor, 500 * SeqMax(AbsSeq(displacement)))

(* 1000 * max(0.01, max|d| * 0.005) *)
OuterDispThreshold1000(displacement) ==
    Max(1000 * SkelFloor, 5 * SeqMax(AbsSeq(displacement)))

(* 100 * max(0.01, max|f| * 0.01) *)
OuterForceThreshold100(force) ==
    Max(100 * SkelFloor, SeqMax(AbsSeq(force)))

(* faulty variant: the comparison with the running extreme forgotten *)
OuterStepNoRunningExtreme(d, f, sign, dthr1000, fthr100, i, walk) ==
    IF 1000 * (sign * d[i]) > dthr1000 /\ 100 * Abs(f[i]) > fthr100
    THEN [ext |-> d[i],
          disp |-> Append(walk.disp, d[i]),
          force |-> Append(walk.force, FInt(f[i]))]
    ELSE walk

(* one iteration of the envelope walk; sign = 1 walks the positive side,   *)
(* sign = -1 the negative one; walk.ext is the running max_disp / min_disp  *)
OuterStep(displacement, force, sign, dthr1000, fthr100, i, walk) ==
    LET v == sign * displacement[i]
        take == /\ 1000 * v > dthr1000
                /\ 10000 * v > 10000 * (sign * walk.ext) + dthr1000
                /\ 100 * Abs(force[i]) > fthr100
    IN  IF take
        THEN [ext |-> displacement[i],
              disp |-> Append(walk.disp, displacement[i]),
              force |-> Append(walk.force, FInt(force[i]))]
        ELSE walk

(* the iterations lo .. hi in order, halved as in DedupLoop *)
RECURSIVE OuterWalk(_, _, _, _, _, _, _, _)
OuterWalk(displacement, force, sign, dthr1000, fthr100, lo, hi, walk) ==
    IF lo > hi THEN walk
    ELSE IF lo = hi
    THEN OuterStep(displacement, force, sign, dthr1000, fthr100, lo, walk)
    ELSE LET mid == (lo + hi) \div 2
             half == OuterWalk(displacement, force, sign, dthr1000, fthr100,
                               lo, mid, walk)
         IN  IF Len(half.disp) >= 0
             THEN OuterWalk(displacement, force, sign, dthr1000, fthr100,
                            mid + 1, hi, half)
             ELSE half

OuterBranch(displacement, force, sign) ==
    LET w == OuterWalk(displacement, force, sign,
                       OuterDispThreshold1000(displacement),
                       OuterForceThreshold100(force), 1, Len(displacement),
                       [ext |-> 0, disp |-> <<0>>, force |-> <<Zero>>])
    IN  [disp |-> w.disp, force |-> w.force]

extract_outer_envelope(displacement, force) ==
    [positive |-> OuterBranch(displacement, force, 1),
     negative |-> OuterBranch(displacement, force, -1)]

(* 100 * max(0.01, max|d| * 0.01) *)
PeakDispThreshold100(displacement) ==
    Max(100 * SkelFloor, SeqMax(AbsSeq(displacement)))

(* the kind of all_peaks entry position i makes, thr100 being the threshold *)
PeakKind(displacement, thr100, i) ==
    IF IsLocalMax(displacement, i) /\ 100 * displacement[i] > thr100
    THEN "positive"
    ELSE IF IsLocalMin(displacement, i) /\ 100 * displacement[i] < -thr100
    THEN "negative"
    ELSE "none"

(* all_peaks as positions in index order *)
AllPeaks(displacement) ==
    LET thr100 == PeakDispThreshold100(displacement)
    IN  SortedSeq({i \in 2..(Len(displacement) - 1) :
                      PeakKind(displacement, thr100, i) # "none"})

PeaksOfKind(displacement, kind) ==
    LET thr100 == PeakDispThreshold100(displacement)
    IN  SelectSeq(AllPeaks(displacement),
                  LAMBDA i : PeakKind(displacement, thr100, i) = kind)

(* faulty variant: the force of the sample before the crossing, not         *)
(* interpolated                                                            *)
InterceptAtLeft(displacement, force, j) == FInt(force[j])

(* the force at displacement 0 on the segment j..j+1, by linear             *)
(* interpolation                                                           *)
InterceptAt(displacement, force, j) ==
    Frac(force[j] * (displacement[j + 1] - displacement[j])
            - displacement[j] * (force[j + 1] - force[j]),
         displacement[j + 1] - displacement[j])

(* common_y_intercept: <<>> stands for None, <<y>> for a value y *)
common_y_intercept(displacement, force) ==
    LET neg == PeaksOfKind(displacement, "negative")
        pos == PeaksOfKind(displacement, "positive")
    IN  IF Len(neg) = 0 \/ Len(pos) < 2 THEN <<>>
        ELSE LET start_search == neg[1]
                 end_search   == pos[2]
                 cross == {j \in start_search..(end_search - 1) :
                              /\ displacement[j] <= 0
                              /\ displacement[j + 1] > 0}
             IN  IF cross = {} THEN <<>>
                 ELSE LET j == CHOOSE m \in cross : \A n \in cross : m <= n
                      IN  <<InterceptAt(displacement, force, j)>>

(* sorted(list, key): stable insertion sort of positions by key[position] *)
RECURSIVE InsertByKey(_, _, _)
InsertByKey(sorted, p, key) ==
    IF sorted = <<>> THEN <<p>>
    ELSE IF key[p] < key[sorted[1]] THEN <<p>> \o sorted
    ELSE <<sorted[1]>> \o InsertByKey(Tail(sorted), p, key)

RECURSIVE SortByKey(_, _)
SortByKey(positions, key) ==
    IF positions = <<>> THEN <<>>
    ELSE InsertByKey(SortByKey(SubSeq(positions, 1, Len(positions) - 1), key),
                     positions[Len(positions)], key)

(* the scan over the sorted peaks of one direction: a peak is appended when  *)
(* its magnitude exceeds the running maximum by more than 0.1 * threshold   *)
RECURSIVE PeakScan(_, _, _, _, _, _)
PeakScan(displacement, force, sorted, thr100, k, running) ==
    IF k > Len(sorted) THEN [disp |-> <<>>, force |-> <<>>]
    ELSE LET p == sorted[k]
             take == 1000 * Abs(displacement[p]) > 1000 * Abs(running) + thr100
             rest == PeakScan(displacement, force, sorted, thr100, k + 1,
                              IF take THEN displacement[p] ELSE running)
         IN  IF take
             THEN [disp |-> <<displacement[p]>> \o rest.disp,
                   force |-> <<FInt(force[p])>> \o rest.force]
             ELSE rest

PeakBranch(displacement, force, kind) ==
    LET c == common_y_intercept(displacement, force)
        f0 == IF c = <<>> THEN Zero ELSE c[1]
        sorted == SortByKey(PeaksOfKind(displacement, kind),
                            AbsSeq(displacement))
        w == PeakScan(displacement, force, sorted,
                      PeakDispThreshold100(displacement), 1, 0)
    IN  [disp |-> <<0>> \o w.disp, force |-> <<f0>> \o w.force]

extract_peak_points(displacement, force) ==
    [positive |-> PeakBranch(displacement, force, "positive"),
     negative |-> PeakBranch(displacement, force, "negative")]

----------------------------------------------------------------------------
(* DuctilityEngine: the seven calc_*_ductility methods.  A branch is a       *)
(* sequence disp of integers and a sequence force of fractions.  An         *)
(* optional value is <<>> (not computed) or <<v>>.                         *)

FAbsSeq(s) == AsSeq([i \in 1..Len(s) |-> FAbs(s[i])])

(* np.argmax / np.argmin over fractions: the first index of the extreme *)
FArgMax(s) == CHOOSE i \in 1..Len(s) :
                  /\ \A j \in 1..Len(s) : FLeq(s[j], s[i])
                  /\ \A j \in 1..(i - 1) : FLess(s[j], s[i])

FArgMin(s) == CHOOSE i \in 1..Len(s) :
                  /\ \A j \in 1..Len(s) : FLeq(s[i], s[j])
                  /\ \A j \in 1..(i - 1) : FLess(s[i], s[j])

(* abs(v) > 1e-6, v in thousandths *)
AboveEps(v) == 1000 * Abs(v) > 1

(* abs(disp[np.argmax(np.abs(disp))]) *)
MaxAbsDisp(disp) == Abs(disp[ArgMax(AbsSeq(disp))])

(* abs(force[np.argmax(np.abs(force))]) *)
MaxAbsForce(force) == FAbs(force[FArgMax(FAbsSeq(force))])

(* --- geometric --- *)
GeometricMaxIdx(force) == FArgMax(FAbsSeq(force))

(* faulty variant: the nearest force searched over the whole branch, not    *)
(* over abs_force[:max_idx+1]                                              *)
GeometricYieldIdxWholeBranch(force) ==
    LET abs_force == FAbsSeq(force)
        max_idx == GeometricMaxIdx(force)
        yield_force == FMul(<<3, 4>>, abs_force[max_idx])
    IN  FArgMin([i \in 1..Len(force) |->
                    FAbs(FSub(abs_force[i], yield_force))])

GeometricYieldIdx(force) ==
    LET abs_force == FAbsSeq(force)
        max_idx == GeometricMaxIdx(force)
        yield_force == FMul(<<3, 4>>, abs_force[max_idx])
    IN  FArgMin([i \in 1..max_idx |-> FAbs(FSub(abs_force[i], yield_force))])

GeometricYield(disp, force) == <<FInt(Abs(disp[GeometricYieldIdx(force)]))>>

GeometricUltimate(disp, force) == FInt(Abs(disp[GeometricMaxIdx(force)]))

calc_geometric_ductility(disp, force) ==
    LET max_disp == GeometricUltimate(disp, force)
        yield_disp == GeometricYield(disp, force)[1]
    IN  IF FLess(Zero, yield_disp) THEN FDiv(max_disp, yield_disp) ELSE One

(* --- energy --- *)
EnergyYield(disp, force) ==
    LET total_energy == calculate_loop_area(disp, force)
        max_force == MaxAbsForce(force)
    IN  IF FLess(Zero, max_force)
        THEN <<FDiv(FMul(FInt(2), total_energy), max_force)>>
        ELSE <<>>

(* faulty variant: a yield displacement of 0 gives 0 in place of 1.0 *)
calc_energy_ductility_unguarded(disp, force) ==
    LET max_disp == FInt(MaxAbsDisp(disp))
        y == EnergyYield(disp, force)
    IN  IF y # <<>>
        THEN (IF FLess(Zero, y[1]) THEN FDiv(max_disp, y[1]) ELSE Zero)
        ELSE One

calc_energy_ductility(disp, force) ==
    LET max_disp == FInt(MaxAbsDisp(disp))
        y == EnergyYield(disp, force)
    IN  IF y # <<>>
        THEN (IF FLess(Zero, y[1]) THEN FDiv(max_disp, y[1]) ELSE One)
        ELSE One

(* --- Park --- *)
(* K0: the largest abs(force[i] / disp[i]) over the 0-based indices         *)
(* 1 .. min(5, len) - 1 with abs(disp[i]) > 1e-6; 0 when there is none      *)
RECURSIVE K0Loop(_, _, _, _)
K0Loop(disp, force, i, K0) ==
    IF i > Min(5, Len(disp)) THEN K0
    ELSE LET K_temp == IF AboveEps(disp[i])
                       THEN FAbs(FDiv(force[i], FInt(disp[i])))
                       ELSE Zero
         IN  K0Loop(disp, force, i + 1,
                    IF AboveEps(disp[i]) /\ FLess(K0, K_temp)
                    THEN K_temp ELSE K0)

InitialK0(disp, force) == K0Loop(disp, force, 2, Zero)

(* faulty variant: the secant stiffness compared with K0, not K0 / 3 *)
ParkYieldIdxNoThird(disp, force) ==
    LET hits == {i \in 3..Len(disp) :
                    /\ AboveEps(disp[i])
                    /\ FLeq(FAbs(FDiv(force[i], FInt(disp[i]))),
                            InitialK0(disp, force))}
    IN  IF hits = {} THEN 0 ELSE CHOOSE i \in hits : \A j \in hits : i <= j

(* the first 0-based index >= 2 whose secant stiffness is <= K0 / 3 *)
ParkYieldIdx(disp, force) ==
    LET Ky == FDiv(InitialK0(disp, force), FInt(3))
        hits == {i \in 3..Len(disp) :
                    /\ AboveEps(disp[i])
                    /\ FLeq(FAbs(FDiv(force[i], FInt(disp[i]))), Ky)}
    IN  IF hits = {} THEN 0 ELSE CHOOSE i \in hits : \A j \in hits : i <= j

ParkYield(disp, force) ==
    IF Len(disp) < 3 THEN <<>>
    ELSE IF InitialK0(disp, force) = Zero THEN <<>>
    ELSE IF ParkYieldIdx(disp, force) = 0 THEN <<>>
    ELSE <<FInt(Abs(disp[ParkYieldIdx(disp, force)]))>>

ParkUltimate(disp) == FInt(Abs(disp[Len(disp)]))

calc_park_ductility(disp, force) ==
    LET y == ParkYield(disp, force)
    IN  IF y = <<>> THEN One
        ELSE IF FLess(Zero, y[1]) THEN FDiv(ParkUltimate(disp), y[1])
        ELSE One

(* --- farthest point --- *)
(* abs(max_force * disp[i] - max_disp * force[i]); the source divides it by *)
(* sqrt(max_force**2 + max_disp**2), the same positive number for every i,  *)
(* so distances compare as these numerators do                             *)
ChordDistance(disp, force, max_idx, i) ==
    FAbs(FSub(FMul(force[max_idx], FInt(disp[i])),
              FMul(FInt(disp[max_idx]), force[i])))

(* the iterations lo .. hi of the search in order, from the state           *)
(* [max_dist, yield_idx], halved as in DedupLoop                           *)
RECURSIVE FarthestLoop(_, _, _, _, _, _)
FarthestLoop(disp, force, max_idx, lo, hi, best) ==
    IF lo > hi THEN best
    ELSE IF lo = hi
    THEN LET dist == ChordDistance(disp, force, max_idx, lo)
         IN  IF FLess(best.max_dist, dist)
             THEN [max_dist |-> dist, yield_idx |-> lo]
             ELSE best
    ELSE LET mid == (lo + hi) \div 2
             half == FarthestLoop(disp, force, max_idx, lo, mid, best)
         IN  IF half.yield_idx >= 0
             THEN FarthestLoop(disp, force, max_idx, mid + 1, hi, half)
             ELSE half

FarthestYield(disp, force) ==
    LET max_idx == ArgMax(AbsSeq(disp))
    IN  IF 1000 * Abs(disp[max_idx]) < 1 THEN <<>>
        ELSE <<FInt(Abs(disp[FarthestLoop(disp, force, max_idx, 2,
                                           max_idx - 1,
                                           [max_dist |-> Zero,
                                            yield_idx |-> 1]).yield_idx]))>>

calc_farthest_ductility(disp, force) ==
    LET max_disp == FInt(MaxAbsDisp(disp))
        y == FarthestYield(disp, force)
    IN  IF y = <<>> THEN One
        ELSE IF FLess(Zero, y[1]) THEN FDiv(max_disp, y[1])
        ELSE One

(* --- ASCE --- *)
AsceYieldIdx(force) ==
    LET abs_force == FAbsSeq(force)
        yield_force == FMul(<<3, 5>>, abs_force[FArgMax(abs_force)])
    IN  FArgMin([i \in 1..Len(force) |->
                    FAbs(FSub(abs_force[i], yield_force))])

AsceYield(disp, force) == <<FInt(Abs(disp[AsceYieldIdx(force)]))>>

calc_asce_ductility(disp, force) ==
    LET yield_disp == AsceYield(disp, force)[1]
        max_disp == FInt(MaxAbsDisp(disp))
    IN  IF FLess(Zero, yield_disp) THEN FDiv(max_disp, yield_disp) ELSE One

(* --- EEEP --- *)
(* faulty variant: the yield displacement of the energy method *)
EeepYieldAsEnergy(disp, force) ==
    LET area == calculate_loop_area(disp, force)
        max_force == MaxAbsForce(force)
    IN  IF FLess(Zero, max_force)
        THEN <<FDiv(FMul(FInt(2), area), max_force)>>
        ELSE <<>>

EeepYield(disp, force) ==
    LET area == calculate_loop_area(disp, force)
        max_force == MaxAbsForce(force)
    IN  IF FLess(Zero, max_force) THEN <<FDiv(area, max_force)>> ELSE <<>>

calc_eeep_ductility(disp, force) ==
    LET max_disp == FInt(MaxAbsDisp(disp))
        y == EeepYield(disp, force)
    IN  IF y # <<>>
        THEN (IF FLess(Zero, y[1]) THEN FDiv(max_disp, y[1]) ELSE One)
        ELSE One

(* --- elastic yield --- *)
ElasticYield(disp, force) ==
    LET K0 == InitialK0(disp, force)
    IN  IF K0 = Zero THEN <<>>
        ELSE <<IF FLess(Zero, K0) THEN FDiv(MaxAbsForce(force), K0)
               ELSE Zero>>

calc_elastic_yield_ductility(disp, force) ==
    LET y == ElasticYield(disp, force)
        max_disp == FInt(MaxAbsDisp(disp))
    IN  IF y = <<>> THEN One
        ELSE IF FLess(Zero, y[1]) THEN FDiv(max_disp, y[1])
        ELSE One

DuctilityMethods ==
    {"geometric", "energy", "park", "farthest", "asce", "eeep", "elastic_yield"}

(* the dispatch of calculate_ductility *)
DuctilityBy(method, disp, force) ==
    CASE method = "geometric" -> calc_geometric_ductility(disp, force)
      [] method = "energy"    -> calc_energy_ductility(disp, force)
      [] method = "park"      -> calc_park_ductility(disp, force)
      [] method = "farthest"  -> calc_farthest_ductility(disp, force)
      [] method = "asce"      -> calc_asce_ductility(disp, force)
      [] method = "eeep"      -> calc_eeep_ductility(disp, force)
      [] OTHER                -> calc_elastic_yield_ductility(disp, force)

----------------------------------------------------------------------------
(* CurveSmoother: the control flow of interpolate_smooth and bezier_curve.  *)
(* The values the SciPy routines compute are not modelled: a smoothed       *)
(* result records how many points it has, the ends of its x grid and the    *)
(* routine that produced its y values.  A library step raises when its      *)
(* documented precondition fails, or when the environment makes it raise    *)
(* (the set faults names the steps that do).                               *)

Algorithms ==
    {"PCHIP", "Akima", "Bezier", "BSpline", "SavitzkyGolay",
     "UnivariateSpline", "CubicSpline"}

FaultSteps ==
    {"settings", "algorithm", "bezier_curve", "bezier_remap",
     "bezier_spline", "bezier_interp"}

MinSmoothPoints == 4    \* len(x) < 4, len(unique_indices) < 4

(* unique_indices: the first occurrence of every x value *)
UniqueIndices(x) ==
    SortedSeq({i \in 1..Len(x) : \A j \in 1..(i - 1) : x[j] # x[i]})

Original(x, y, reported) ==
    [kind |-> "original", n |-> Len(x), x |-> x, y |-> y, by |-> "none",
     reported |-> reported]

Smoothed(x_sorted, n, by, reported) ==
    [kind |-> "smoothed", n |-> n,
     x |-> <<x_sorted[1], x_sorted[Len(x_sorted)]>>, y |-> <<>>, by |-> by,
     reported |-> reported]

(* faulty variant: an even window length not made odd *)
SavgolWindowEven(smooth100, n) ==
    LET w2 == Min(smooth100 \div 100, n - 1)
    IN  IF w2 < 3 THEN 3 ELSE w2

(* the window length and polynomial order of the Savitzky-Golay branch *)
SavgolWindow(smooth100, n) ==
    LET w0 == smooth100 \div 100
        w1 == IF w0 % 2 = 0 THEN w0 + 1 ELSE w0
        w2 == Min(w1, n - 1)
    IN  IF w2 < 3 THEN 3 ELSE w2

SavgolPolyorder(window_length) == Min(3, window_length - 1)

(* savgol_filter accepts an odd window no longer than the data and a        *)
(* polynomial order below the window length                                *)
SavgolAccepts(n, window_length, polyorder) ==
    /\ window_length % 2 = 1
    /\ window_length <= n
    /\ polyorder < window_length

(* faulty variant: the number of control points rounded, not truncated *)
BezierControlCountRounded(n_points, smooth100) ==
    Max(4, (n_points * smooth100 + 5000) \div 10000)

(* n_control = max(4, int(n_points * control_point_ratio)), the ratio being *)
(* smoothness / 100 and the spin box holding whole percents                *)
BezierControlCount(n_points, smooth100) ==
    Max(4, (n_points * smooth100) \div 10000)

(* the 1-based positions of the control points: all of them when n_control  *)
(* reaches n_points, else np.unique of the truncated                        *)
(* np.linspace(0, n_points - 1, n_control)                                 *)
BezierControlIndices(n_points, smooth100) ==
    LET n_control == BezierControlCount(n_points, smooth100)
    IN  IF n_control >= n_points THEN [i \in 1..n_points |-> i]
        ELSE SortedSeq({1 + ((k * (n_points - 1)) \div (n_control - 1)) :
                           k \in 0..(n_control - 1)})

(* faulty variant: bezier_curve without its fallback chain *)
bezier_curve_no_fallback(faults) ==
    IF "bezier_curve" \in faults THEN <<>>
    ELSE IF "bezier_remap" \notin faults
         THEN <<[by |-> "Bezier", reported |-> {}]>>
         ELSE <<[by |-> "Bezier nearest", reported |-> {}]>>

(* bezier_curve: <<>> when an exception leaves it, else the routine that    *)
(* produced y_new, with the message it reported                            *)
bezier_curve(faults) ==
    IF "bezier_curve" \notin faults
    THEN IF "bezier_remap" \notin faults
         THEN <<[by |-> "Bezier", reported |-> {}]>>
         ELSE <<[by |-> "Bezier nearest", reported |-> {}]>>
    ELSE IF "bezier_spline" \notin faults
         THEN <<[by |-> "Bezier fallback spline",
                 reported |-> {"Failed to generate Bezier curve"}]>>
    ELSE IF "bezier_interp" \notin faults
         THEN <<[by |-> "Bezier fallback linear",
                 reported |-> {"Failed to generate Bezier curve"}]>>
    ELSE <<>>

SmoothFailed(x, y, reported) ==
    Original(x, y, reported \cup {"Smoothing interpolation failed"})

(* faulty variant: the count of distinct x values not checked *)
interpolate_smooth_unchecked(x, y, algo, smooth100, n, faults) ==
    IF Len(x) < MinSmoothPoints THEN Original(x, y, {})
    ELSE Smoothed(SortedSeq({x[i] : i \in 1..Len(x)}), n, algo, {})

interpolate_smooth(x, y, algo, smooth100, n, faults) ==
    IF Len(x) < MinSmoothPoints THEN Original(x, y, {})
    ELSE IF Len(UniqueIndices(x)) < MinSmoothPoints THEN Original(x, y, {})
    ELSE LET x_sorted == SortedSeq({x[i] : i \in 1..Len(x)})
         IN  IF "settings" \in faults THEN SmoothFailed(x, y, {})
             ELSE IF algo = "Bezier" THEN
                 LET b == bezier_curve(faults)
                 IN  IF b = <<>>
                     THEN SmoothFailed(x, y,
                              {"Failed to generate Bezier curve"})
                     ELSE Smoothed(x_sorted, n, b[1].by, b[1].reported)
             ELSE IF "algorithm" \in faults THEN SmoothFailed(x, y, {})
             ELSE IF algo = "SavitzkyGolay" THEN
                 LET w == SavgolWindow(smooth100, n)
                 IN  IF SavgolAccepts(n, w, SavgolPolyorder(w))
                     THEN Smoothed(x_sorted, n, "SavitzkyGolay", {})
                     ELSE SmoothFailed(x, y, {})
             ELSE IF algo = "UnivariateSpline" THEN
                 Smoothed(x_sorted, n,
                          IF smooth100 = 0 THEN "CubicSpline"
                          ELSE "UnivariateSpline", {})
             ELSE IF algo \in Algorithms THEN Smoothed(x_sorted, n, algo, {})
             ELSE Original(x, y, {})

----------------------------------------------------------------------------
(* MetricsEngine: calculate_indices and calculate_degradation.  The metric  *)
(* set is a function from the keys that are present to their values.       *)

NoIndices == [k \in {} |-> 0]

Entry(present, key, value) == IF present THEN key :> value ELSE NoIndices

Has(ind, key) == key \in DOMAIN ind

IdxDispFloor == 1       \* 0.001

IdxForceFloor == 10     \* 0.01

RECURSIVE SumProducts(_, _, _, _)
SumProducts(x, y, lo, hi) ==
    IF lo > hi THEN 0 ELSE x[lo] * y[lo] + SumProducts(x, y, lo + 1, hi)

(* np.polyfit(x, y, 1)[0] over the positions lo .. hi: the least-squares    *)
(* slope                                                                   *)
PolyfitSlope(x, y, lo, hi) ==
    LET n    == hi - lo + 1
        ones == [i \in 1..hi |-> 1]
        sx   == SumProducts(x, ones, lo, hi)
        sy   == SumProducts(y, ones, lo, hi)
        sxy  == SumProducts(x, y, lo, hi)
        sxx  == SumProducts(x, x, lo, hi)
    IN  Frac(n * sxy - sx * sy, n * sxx - sx * sx)

SecantEntry(skeleton) ==
    LET pos == skeleton.positive
        last == Len(pos.disp)
    IN  Entry(Len(pos.disp) > 1 /\ pos.disp[last] # 0,
              "secant_stiffness",
              IF pos.disp[last] # 0
              THEN FDiv(pos.force[last], FInt(pos.disp[last])) ELSE Zero)

InitialStiffnessEntry(displacement, force) ==
    IF Len(displacement) <= 10 THEN NoIndices
    ELSE LET dthr1000 == Max(1000 * IdxDispFloor,
                             SeqMax(AbsSeq(displacement)))
             fthr1000 == Max(1000 * IdxForceFloor, SeqMax(AbsSeq(force)))
             hits == {i \in 1..Len(force) :
                         /\ 1000 * Abs(force[i]) > fthr1000
                         /\ 1000 * Abs(displacement[i]) > dthr1000}
             start_idx == IF hits = {} THEN 1
                          ELSE CHOOSE i \in hits : \A k \in hits : i <= k
             n == Max(5, Min(20, Len(displacement) \div 10))
             (* the window is start_idx .. end_idx here, end_idx inclusive *)
             end_idx == Min(start_idx + n - 1, Len(displacement))
             window == SubSeq(displacement, start_idx, end_idx)
         IN  Entry(/\ end_idx - start_idx + 1 > 2
                   /\ 1000 * (SeqMax(window) - SeqMin(window)) > dthr1000,
                   "initial_stiffness",
                   IF SeqMax(window) > SeqMin(window)
                   THEN PolyfitSlope(displacement, force, start_idx, end_idx)
                   ELSE Zero)

RECURSIVE TotalArea(_)
TotalArea(loops) ==
    IF loops = <<>> THEN Zero
    ELSE FAdd(loops[1].area, TotalArea(Tail(loops)))

(* he = total_area / (2 * pi * S_OBE); the stored value is he * pi *)
DampingEntry(total_area, skeleton) ==
    LET pos == skeleton.positive
        last == Len(pos.disp)
        S_OBE == FAbs(FMul(FInt(pos.disp[last]), pos.force[last]))
    IN  Entry(/\ FLess(Zero, total_area)
              /\ Len(pos.disp) > 1
              /\ FLess(Zero, S_OBE),
              "equivalent_viscous_damping_times_pi",
              IF FLess(Zero, S_OBE)
              THEN FDiv(total_area, FMul(FInt(2), S_OBE)) ELSE Zero)

FSeqMax(s) == s[FArgMax(s)]

LoopEnergyEntries(loops) ==
    LET areas == SelectSeq([k \in 1..Len(loops) |-> loops[k].area],
                           LAMBDA a : FLess(Zero, a))
    IN  IF areas = <<>> THEN NoIndices
        ELSE ("mean_loop_energy" :>
                 FDiv(TotalArea([k \in 1..Len(areas) |-> [area |-> areas[k]]]),
                      FInt(Len(areas))))
             @@ ("max_loop_energy" :> FSeqMax(areas))

(* faulty variant: the quotient taken without the test forces[0] != 0 *)
StrengthEntryUnguarded(loops, kind, key) ==
    LET same == SelectSeq(loops, LAMBDA l : l.type = kind)
        first == IF same = <<>> THEN 0 ELSE Abs(same[1].peak_force)
        last  == IF same = <<>> THEN 0 ELSE Abs(same[Len(same)].peak_force)
    IN  Entry(Len(same) >= 2, key,
              IF first # 0 THEN Frac(100 * (first - last), first)
              ELSE <<100 * (first - last), 0>>)

(* (forces[0] - forces[-1]) / forces[0] * 100 over the loops of one kind *)
StrengthEntry(loops, kind, key) ==
    LET same == SelectSeq(loops, LAMBDA l : l.type = kind)
        first == IF same = <<>> THEN 0 ELSE Abs(same[1].peak_force)
        last  == IF same = <<>> THEN 0 ELSE Abs(same[Len(same)].peak_force)
    IN  Entry(Len(same) >= 2 /\ first # 0, key,
              IF first # 0 THEN Frac(100 * (first - last), first) ELSE Zero)

StiffnessDegradationEntry(ind) ==
    LET both == Has(ind, "initial_stiffness") /\ Has(ind, "secant_stiffness")
        K0 == IF both THEN ind["initial_stiffness"] ELSE Zero
        Ks == IF both THEN ind["secant_stiffness"] ELSE Zero
    IN  Entry(both /\ K0 # Zero, "stiffness_degradation",
              IF K0 # Zero
              THEN FMul(FDiv(FSub(K0, Ks), K0), FInt(100)) ELSE Zero)

(* calculate_degradation: the entries it adds to the metric set ind *)
calculate_degradation(ind, loops) ==
    IF Len(loops) < 2 THEN NoIndices
    ELSE StrengthEntry(loops, "positive", "strength_degradation_positive")
         @@ StrengthEntry(loops, "negative", "strength_degradation_negative")
         @@ StiffnessDegradationEntry(ind)

calculate_indices(displacement, force, loops, skeleton) ==
    LET total_area == TotalArea(loops)
        base ==
            ("peak_displacement" :>
                [positive |-> displacement[ArgMax(displacement)],
                 negative |-> displacement[ArgMin(displacement)]])
            @@ ("peak_force" :>
                [positive |-> force[ArgMax(force)],
                 negative |-> force[ArgMin(force)]])
            @@ ("residual_deformation" :> displacement[Len(displacement)])
            @@ ("total_loop_area" :> total_area)
            @@ ("cumulative_energy" :> total_area)
            @@ SecantEntry(skeleton)
            @@ InitialStiffnessEntry(displacement, force)
            @@ DampingEntry(total_area, skeleton)
            @@ LoopEnergyEntries(loops)
    IN  base @@ calculate_degradation(base, loops)

(* faulty variant: a branch of two points is given a ductility *)
DuctilityEntryFromTwo(skeleton, dir_name, method, wanted) ==
    LET curve == skeleton[dir_name]
    IN  Entry(wanted /\ Len(curve.disp) >= 2,
              "ductility_" \o dir_name \o "_" \o method,
              IF Len(curve.disp) >= 2
              THEN DuctilityBy(method, curve.disp, curve.force) ELSE One)

(* calculate_ductility: the entries it adds, keyed by direction and method *)
DuctilityEntry(skeleton, dir_name, method, wanted) ==
    LET curve == skeleton[dir_name]
    IN  Entry(wanted /\ Len(curve.disp) >= 3,
              "ductility_" \o dir_name \o "_" \o method,
              IF Len(curve.disp) >= 3
              THEN DuctilityBy(method, curve.disp, curve.force) ELSE One)

calculate_ductility(skeleton, method, dir) ==
    DuctilityEntry(skeleton, "positive", method,
                   dir \in {"positive", "both"})
    @@ DuctilityEntry(skeleton, "negative", method,
                      dir \in {"negative", "both"})

----------------------------------------------------------------------------
(* The window's analysis state: load_data, update_analysis and the          *)
(* handlers of the parameter widgets                                       *)

NoData == [loaded |-> FALSE, file |-> 0, displacement |-> <<>>,
           force |-> <<>>, filtered |-> <<>>]

(* current_data.get('displacement_filtered', current_data['displacement']) *)
WorkingSeries(cd) ==
    IF cd.filtered # <<>> THEN cd.filtered[1]
    ELSE [displacement |-> cd.displacement, force |-> cd.force]

(* extract_hysteresis_loops: the filter runs on the loaded series and its   *)
(* result is stored in current_data only when the box is checked           *)
LoopSeries(cd, filter) ==
    IF filter THEN filter_first_loops(cd.displacement, cd.force)
    ELSE [displacement |-> cd.displacement, force |-> cd.force]

extract_skeleton_curve(cd, method) ==
    LET w == WorkingSeries(cd)
    IN  IF method = "outer_envelope"
        THEN extract_outer_envelope(w.displacement, w.force)
        ELSE extract_peak_points(w.displacement, w.force)

(* one statement's result handed to the statements after it: Rest(value) *)
Bind(value, Rest(_)) == CHOOSE r \in {Rest(v) : v \in {value}} : TRUE

(* update_analysis for the loaded data cd under the current widgets:        *)
(* extract_hysteresis_loops, extract_skeleton_curve, calculate_indices and  *)
(* calculate_ductility in turn                                             *)
AnalysisOf(cd, filter, method, dir, duct) ==
    Bind(LoopSeries(cd, filter), LAMBDA ls :
    Bind(SegmentLoops(ls.displacement, ls.force), LAMBDA loops :
    Bind(IF filter THEN [cd EXCEPT !.filtered = <<ls>>] ELSE cd, LAMBDA cd2 :
    Bind(extract_skeleton_curve(cd2, method), LAMBDA skel :
    Bind(WorkingSeries(cd2), LAMBDA w :
    Bind(calculate_indices(w.displacement, w.force, loops, skel), LAMBDA ind :
        [data |-> cd2, loops |-> loops, skeleton |-> skel,
         indices |-> ind @@ calculate_ductility(skel, duct, dir)]))))))

----------------------------------------------------------------------------
vars == <<pc, in_disp, in_force, out, algorithm, smoothness, num_points,
          plot_style, show_original_points, canvas, current_data, filter_first_loop, skeleton_method, direction,
          ductility_method, hysteresis_loops, skeleton_curve, indices>>

analysis == <<current_data, filter_first_loop, skeleton_method, direction,
              ductility_method, hysteresis_loops, skeleton_curve, indices>>

inputs == <<in_disp, in_force, algorithm, smoothness, num_points, plot_style,
            show_original_points, canvas, analysis>>

(* the analysis state as the constructor leaves it *)
AnalysisIdle ==
    /\ current_data = NoData
    /\ filter_first_loop = FALSE
    /\ skeleton_method = "outer_envelope"
    /\ direction = "both"
    /\ ductility_method = "geometric"
    /\ hysteresis_loops = <<>>
    /\ skeleton_curve = <<>>
    /\ indices = NoIndices

(* the smoothing widgets as the constructor leaves them *)
SmoothIdle ==
    /\ algorithm = "PCHIP"
    /\ smoothness = 100
    /\ num_points = 300
    /\ plot_style = "line"
    /\ show_original_points = TRUE
    /\ canvas = <<>>

----------------------------------------------------------------------------
(* Checking preprocess_data: the cleaning of one raw series, and the        *)
(* cleaning of its own output                                              *)

MaxLenPre == 4

PreSamples ==
    { <<0, 0>>, <<-2, 0>>, <<2, 5000>>, <<500, 10000>>,
      <<100, 10>>, <<108, 20>>, <<104, 50>>, <<10000, 9000>>,
      <<100, 50>> }

RawSeries(samples, maxlen) ==
    UNION {[1..n -> samples] : n \in 1..maxlen}

NoSeries == [displacement |-> <<>>, force |-> <<>>]

InitPre ==
    /\ AnalysisIdle
    /\ SmoothIdle
    /\ pc = "raw"
    /\ \E s \in RawSeries(PreSamples, MaxLenPre) :
          /\ in_disp = [i \in 1..Len(s) |-> s[i][1]]
          /\ in_force = [i \in 1..Len(s) |-> s[i][2]]
    /\ out = [first |-> NoSeries, second |-> NoSeries]

Preprocess ==
    /\ pc = "raw"
    /\ out' = [out EXCEPT !.first = preprocess_data(in_disp, in_force)]
    /\ pc' = "cleaned"
    /\ UNCHANGED inputs

PreprocessAgain ==
    /\ pc = "cleaned"
    /\ out' = [out EXCEPT !.second =
                   preprocess_data(out.first.displacement, out.first.force)]
    /\ pc' = "recleaned"
    /\ UNCHANGED inputs

NextPre == Preprocess \/ PreprocessAgain

SpecPre == InitPre /\ [][NextPre]_vars

(* C4: preprocess applied to its own output returns that output unchanged *)
C4_PreprocessIdempotent ==
    pc = "recleaned" => out.second = out.first

(* C5: no two distinct samples of a cleaned series lie within the           *)
(* deduplication tolerance of the call that produced it                    *)
C5_NoTwoWithinTolerance ==
    pc = "cleaned" =>
        \A i, j \in 1..Len(out.first.displacement) :
            i # j => ~WithinTolerance(out.first.displacement[i],
                                      out.first.displacement[j],
                                      PreTolerance2000(in_disp))

(* C13: on every pair of equal-length series of at least one sample,       *)
(* preprocess returns two series of one length, which is at least 1 and at  *)
(* most the length of the input; so does preprocess on its own output       *)
C13_PreprocessReturnsSeries ==
    /\ pc \in {"cleaned", "recleaned"} =>
          /\ Len(out.first.displacement) = Len(out.first.force)
          /\ Len(out.first.displacement) >= 1
          /\ Len(out.first.displacement) <= Len(in_disp)
    /\ pc = "recleaned" =>
          /\ Len(out.second.displacement) = Len(out.second.force)
          /\ Len(out.second.displacement) >= 1
          /\ Len(out.second.displacement) <= Len(out.first.displacement)

(* a single-point input, cleaned twice *)
C13_Witness ==
    /\ pc = "recleaned"
    /\ Len(in_disp) = 1
    /\ Len(out.first.displacement) = 1
    /\ Len(out.second.displacement) = 1

(* the snapped input series of the first call *)
SnappedDisp == Snap(in_disp, PreThreshold1000(PreDispFloor, in_disp))

SnappedForce == Snap(in_force, PreThreshold1000(PreForceFloor, in_force))

(* C16: the samples within the tolerance of each other are one group and    *)
(* one sample of a group survives, the one of largest |force|, the earliest *)
(* of them on a tie: every sample has a survivor within the tolerance, no   *)
(* two survivors are within the tolerance of each other, and no sample      *)
(* within the tolerance of a survivor has a larger |force|, or the same     *)
(* |force| at an earlier position                                          *)
C16_GroupKeepsLargestForce ==
    pc = "cleaned" =>
        LET kept == unique_indices(in_disp, in_force)
            K == {kept[k] : k \in 1..Len(kept)}
            near(i, j) == WithinTolerance(SnappedDisp[i], SnappedDisp[j],
                                          PreTolerance2000(in_disp))
        IN  /\ out.first.force = Pick(SnappedForce, kept)
            /\ \A i \in 1..Len(in_disp) : \E s \in K : near(i, s)
            /\ \A s, t \in K : s # t => ~near(s, t)
            /\ \A s \in K : \A j \in 1..Len(in_disp) :
                  near(j, s) =>
                      \/ Abs(SnappedForce[j]) < Abs(SnappedForce[s])
                      \/ Abs(SnappedForce[j]) = Abs(SnappedForce[s]) /\ s <= j

(* C17 as stated: the returned series is in ascending order of             *)
(* displacement                                                            *)
C17_AscendingByKey ==
    pc = "cleaned" =>
        \A i \in 1..(Len(out.first.displacement) - 1) :
            out.first.displacement[i] <= out.first.displacement[i + 1]

(* the returned series is the snapped input at the ascending positions S,   *)
(* its displacements shifted by one offset                                 *)
IsSubsequenceAt(S) ==
    LET sel == SortedSeq(S)
        d == out.first.displacement
    IN  /\ Len(d) = Len(sel)
        /\ out.first.force = Pick(SnappedForce, sel)
        /\ \A k \in 1..Len(sel) :
              d[k] - d[1] = SnappedDisp[sel[k]] - SnappedDisp[sel[1]]

(* C17 amended: the returned series keeps the surviving samples in their    *)
(* original time order                                                     *)
C17_TimeOrderKept ==
    pc = "cleaned" =>
        \E S \in SUBSET (1..Len(in_disp)) : IsSubsequenceAt(S)

(* a sample is dropped and the returned displacements are not ascending *)
C17_Witness ==
    /\ pc = "cleaned"
    /\ Len(out.first.displacement) = 3
    /\ Len(in_disp) = 4
    /\ out.first.displacement[1] > out.first.displacement[2]
    /\ out.first.displacement[2] < out.first.displacement[3]

(* C18: the displacement of the first deduplicated sample beyond twice a    *)
(* threshold in either channel is subtracted from every displacement,       *)
(* whatever its position; with no such sample nothing is subtracted; the    *)
(* forces are not shifted                                                  *)
C18_RezeroAtLoadingStart ==
    pc = "cleaned" =>
        LET kept == unique_indices(in_disp, in_force)
            dd == Pick(SnappedDisp, kept)
            ff == Pick(SnappedForce, kept)
            dthr == PreThreshold1000(PreDispFloor, in_disp)
            fthr == PreThreshold1000(PreForceFloor, in_force)
            hits == {i \in 1..Len(dd) :
                        \/ 1000 * Abs(dd[i]) > 2 * dthr
                        \/ 1000 * Abs(ff[i]) > 2 * fthr}
        IN  /\ out.first.force = ff
            /\ hits = {} => out.first.displacement = dd
            /\ hits # {} =>
                  LET first == CHOOSE i \in hits : \A j \in hits : i <= j
                  IN  out.first.displacement =
                          [i \in 1..Len(dd) |-> dd[i] - dd[first]]

----------------------------------------------------------------------------
(* Checking segmentation and skeleton extraction on one working series *)

MaxLenSeg == 5

SegSamples ==
    { <<0, 0>>, <<2000, 10000>>, <<4000, 20000>>,
      <<-2000, -15000>>, <<-4000, -20000>>, <<3000, 0>> }

(* the scenario series of the specification's section 8 *)
ScenarioDisp == <<0, 2000, 4000, 2000, 0, -2000, -4000, -2000, 0>>

ScenarioForce == <<0, 10000, 20000, 15000, 0, -10000, -20000, -15000, 0>>

NoBranch == [disp |-> <<>>, force |-> <<>>]

NoSkeleton == [positive |-> NoBranch, negative |-> NoBranch]

InitSeg ==
    /\ AnalysisIdle
    /\ SmoothIdle
    /\ pc = "series"
    /\ \/ \E s \in RawSeries(SegSamples, MaxLenSeg) :
             /\ in_disp = [i \in 1..Len(s) |-> s[i][1]]
             /\ in_force = [i \in 1..Len(s) |-> s[i][2]]
       \/ in_disp = ScenarioDisp /\ in_force = ScenarioForce
       \/ /\ in_disp = <<0, 2000, 4000, 0, -4000, 0, 3000, -2000, 2000, 0>>
          /\ in_force = <<0, 10000, 20000, 0, -20000, 0, 0, -15000, 10000, 0>>
    /\ out = [loops |-> <<>>, outer |-> NoSkeleton, peaks |-> NoSkeleton]

Segment ==
    /\ pc = "series"
    /\ out' = [out EXCEPT !.loops = SegmentLoops(in_disp, in_force)]
    /\ pc' = "loops"
    /\ UNCHANGED inputs

ExtractOuter ==
    /\ pc = "loops"
    /\ out' = [out EXCEPT !.outer = extract_outer_envelope(in_disp, in_force)]
    /\ pc' = "outer"
    /\ UNCHANGED inputs

ExtractPeaks ==
    /\ pc = "outer"
    /\ out' = [out EXCEPT !.peaks = extract_peak_points(in_disp, in_force)]
    /\ pc' = "peaks"
    /\ UNCHANGED inputs

NextSeg == Segment \/ ExtractOuter \/ ExtractPeaks

SpecSeg == InitSeg /\ [][NextSeg]_vars

(* C2: every loop produced by segmentation has area >= 0, the area being    *)
(* the absolute value of the trapezoidal integral over the loop span       *)
C2_LoopAreaNonNegative ==
    pc # "series" =>
        \A k \in 1..Len(out.loops) :
            /\ out.loops[k].area[1] >= 0
            /\ out.loops[k].area =
                  FAbs(TrapezoidSum(out.loops[k].displacement,
                                    FSeq(out.loops[k].force), 1))

C2_Witness ==
    /\ pc = "loops"
    /\ \E k \in 1..Len(out.loops) :
          /\ out.loops[k].area[1] > 0
          /\ TrapezoidSum(out.loops[k].displacement,
                          FSeq(out.loops[k].force), 1)[1] < 0

BranchStartsAtZeroAndGrows(b) ==
    /\ Len(b.disp) >= 1
    /\ b.disp[1] = 0
    /\ \A i \in 1..(Len(b.disp) - 1) : Abs(b.disp[i]) < Abs(b.disp[i + 1])

(* C3: with both extraction methods every returned branch starts at         *)
(* displacement 0 and its |displacement| strictly increases with the index  *)
C3_BranchStrictlyIncreasing ==
    /\ pc \in {"outer", "peaks"} =>
          /\ BranchStartsAtZeroAndGrows(out.outer.positive)
          /\ BranchStartsAtZeroAndGrows(out.outer.negative)
    /\ pc = "peaks" =>
          /\ BranchStartsAtZeroAndGrows(out.peaks.positive)
          /\ BranchStartsAtZeroAndGrows(out.peaks.negative)

C3_Witness ==
    /\ pc = "peaks"
    /\ Len(out.outer.positive.disp) >= 3
    /\ Len(out.outer.negative.disp) >= 2
    /\ Len(out.peaks.positive.disp) >= 3
    /\ Len(out.peaks.negative.disp) >= 2

(* the positions of the Positive and Negative peaks of the input series *)
SignedPeaks ==
    {i \in 2..(Len(in_disp) - 1) :
        \/ /\ in_disp[i] > in_disp[i - 1] /\ in_disp[i] > in_disp[i + 1]
           /\ in_disp[i] > 0
        \/ /\ in_disp[i] < in_disp[i - 1] /\ in_disp[i] < in_disp[i + 1]
           /\ in_disp[i] < 0}

(* the spans between peaks adjacent in index order that hold 3 samples or   *)
(* more, in order                                                          *)
KeptSpans ==
    LET ps == SortedSeq(SignedPeaks)
    IN  SelectSeq([k \in 1..(Len(ps) - 1) |-> <<ps[k], ps[k + 1]>>],
                  LAMBDA span : span[2] - span[1] + 1 >= 3)

(* C19: the loops are exactly the spans between adjacent signed peaks that  *)
(* hold at least 3 samples, ends included, each labeled with the kind of    *)
(* its first peak and carrying that peak's displacement and force           *)
C19_LoopsAreSpansBetweenPeaks ==
    pc # "series" =>
        /\ Len(out.loops) = Len(KeptSpans)
        /\ \A k \in 1..Len(KeptSpans) :
              LET a == KeptSpans[k][1]
                  b == KeptSpans[k][2]
              IN  /\ out.loops[k].displacement = SubSeq(in_disp, a, b)
                  /\ out.loops[k].force = SubSeq(in_force, a, b)
                  /\ out.loops[k].peak_disp = in_disp[a]
                  /\ out.loops[k].peak_force = in_force[a]
                  /\ out.loops[k].type =
                        (IF in_disp[a] > 0 THEN "positive" ELSE "negative")

(* one loop from a Negative peak to a Positive peak, three samples long *)
C19_Witness ==
    /\ pc = "loops"
    /\ Len(in_disp) = 5
    /\ Len(out.loops) = 1
    /\ out.loops[1].type = "negative"
    /\ Len(out.loops[1].displacement) = 3
    /\ out.loops[1].peak_force # 0

(* the loops of the state lie on the spans of the segmentation, in order;   *)
(* the spans run from a peak to a later peak in peak order, two of them     *)
(* share at most the peak that ends one and starts the other, and no        *)
(* sample before the first or after the last peak lies in a span            *)
SpansShareOnlyPeaks ==
    LET peaks == LoopPeaks(in_disp)
        spans == LoopSpans(in_disp)
        Samples(k) == spans[k][1]..spans[k][2]
    IN  /\ Len(out.loops) = Len(spans)
        /\ \A k \in 1..Len(spans) :
              /\ out.loops[k].displacement =
                    SubSeq(in_disp, spans[k][1], spans[k][2])
              /\ \E a, b \in 1..Len(peaks) :
                    a < b /\ spans[k] = <<peaks[a], peaks[b]>>
        /\ \A k \in 1..(Len(spans) - 1) :
              /\ spans[k][1] < spans[k + 1][1]
              /\ spans[k][2] <= spans[k + 1][1]
        /\ \A j, k \in 1..Len(spans) :
              j < k =>
                 /\ Cardinality(Samples(j) \cap Samples(k)) <= 1
                 /\ Samples(j) \cap Samples(k) # {} =>
                       /\ k = j + 1
                       /\ spans[j][2] = spans[k][1]
                       /\ Samples(j) \cap Samples(k) = {spans[j][2]}
        /\ \A i \in 1..Len(in_disp) :
              (peaks = <<>> \/ i < peaks[1] \/ i > peaks[Len(peaks)]) =>
                  \A k \in 1..Len(spans) : i \notin Samples(k)

(* C28 as stated: loop spans overlap in one sample at most, follow the peak *)
(* order, share only a common peak, leave out the samples before the first  *)
(* and after the last peak, and number at most the number of peaks minus 1  *)
C28_AtMostPeaksMinusOne ==
    pc # "series" =>
        /\ SpansShareOnlyPeaks
        /\ Len(out.loops) <= Len(LoopPeaks(in_disp)) - 1

(* C28: loop spans overlap in one sample at most, follow the peak order,    *)
(* share only a common peak, leave out the samples before the first and     *)
(* after the last peak, and number at most the number of peaks minus 1, or  *)
(* 0 when the series has no peak                                           *)
C28_SpansShareOnlyPeaks ==
    pc # "series" =>
        /\ SpansShareOnlyPeaks
        /\ Len(out.loops) <= Max(0, Len(LoopPeaks(in_disp)) - 1)

(* five peaks, the first three two samples apart and the last three         *)
(* adjacent: two loops that share the second peak, two spans discarded      *)
C28_Witness ==
    /\ pc = "loops"
    /\ LoopPeaks(in_disp) = <<3, 5, 7, 8, 9>>
    /\ LoopSpans(in_disp) = <<<<3, 5>>, <<5, 7>>>>
    /\ Len(out.loops) = 2
    /\ out.loops[1].displacement = <<4000, 0, -4000>>
    /\ out.loops[2].displacement = <<-4000, 0, 3000>>

(* the peaks of the peak-point method on the input series: strict local     *)
(* extrema beyond the dead-band of 1% of the largest |displacement| (at     *)
(* least 0.01)                                                             *)
DeadBandPeaks(sign) ==
    LET band100 == Max(1000, SeqMax(AbsSeq(in_disp)))
    IN  {i \in 2..(Len(in_disp) - 1) :
            /\ sign * in_disp[i] > sign * in_disp[i - 1]
            /\ sign * in_disp[i] > sign * in_disp[i + 1]
            /\ 100 * sign * in_disp[i] > band100}

(* the crossings from <= 0 to > 0 between the first Negative peak and the   *)
(* second Positive peak                                                    *)
OriginCrossings ==
    LET neg == SortedSeq(DeadBandPeaks(-1))
        pos == SortedSeq(DeadBandPeaks(1))
    IN  IF Len(neg) = 0 \/ Len(pos) < 2 THEN {}
        ELSE {j \in neg[1]..(pos[2] - 1) :
                 in_disp[j] <= 0 /\ in_disp[j + 1] > 0}

(* C20: in the peak-point method both branches begin with the same point    *)
(* (0, f0); f0 is the force interpolated linearly at the first crossing     *)
(* between the first Negative peak and the second Positive peak, and 0      *)
(* when there is no such crossing                                          *)
C20_CommonOrigin ==
    pc = "peaks" =>
        LET f0 == out.peaks.positive.force[1]
        IN  /\ out.peaks.positive.disp[1] = 0
            /\ out.peaks.negative.disp[1] = 0
            /\ out.peaks.negative.force[1] = f0
            /\ OriginCrossings = {} => f0 = Zero
            /\ OriginCrossings # {} =>
                  LET j == CHOOSE m \in OriginCrossings :
                               \A n \in OriginCrossings : m <= n
                      run == in_disp[j + 1] - in_disp[j]
                  IN  FMul(f0, FInt(run)) =
                          FInt(in_force[j] * run
                                  - in_disp[j] * (in_force[j + 1] - in_force[j]))

(* a crossing half way between a Negative peak and the second Positive peak *)
C20_Witness ==
    /\ pc = "peaks"
    /\ OriginCrossings # {}
    /\ out.peaks.positive.force[1] = FInt(-2500)
    /\ out.peaks.negative.force[1] = FInt(-2500)
    /\ Len(out.peaks.positive.disp) >= 2

RECURSIVE SumAreas(_)
SumAreas(loops) ==
    IF loops = <<>> THEN Zero
    ELSE FAdd(loops[1].area, SumAreas(Tail(loops)))

(* C9: on the scenario series outer-envelope extraction returns the         *)
(* positive branch (0,0), (2,10), (4,20) and the negative branch (0,0),      *)
(* (-2,-10), (-4,-20), and the loop areas sum to more than 0                *)
C9_Scenario ==
    (in_disp = ScenarioDisp /\ in_force = ScenarioForce) =>
        /\ pc # "series" => FLess(Zero, SumAreas(out.loops))
        /\ pc \in {"outer", "peaks"} =>
              /\ out.outer.positive =
                    [disp |-> <<0, 2000, 4000>>,
                     force |-> FSeq(<<0, 10000, 20000>>)]
              /\ out.outer.negative =
                    [disp |-> <<0, -2000, -4000>>,
                     force |-> FSeq(<<0, -10000, -20000>>)]

C9_Witness ==
    /\ in_disp = ScenarioDisp
    /\ in_force = ScenarioForce
    /\ pc = "outer"
    /\ Len(out.loops) = 1

----------------------------------------------------------------------------
(* Checking filter_first_loops on two-cycle triangular series: a lead-in of  *)
(* lead samples at rest, then two cycles 0 -> A -> -A -> 0 whose quarter     *)
(* takes q samples and whose amplitudes are a1 and a2                      *)

MaxLead == 3

QuarterSteps == {5, 10, 13}

Amplitudes == {4000, 4200, 6000}

(* sample k (0-based) of one cycle of amplitude a with quarter length q *)
CycleSample(a, q, k) ==
    IF k <= q THEN (a * k) \div q
    ELSE IF k <= 3 * q THEN (a * (2 * q - k)) \div q
    ELSE (a * (k - 4 * q)) \div q

TwoCycles(lead, q, a1, a2) ==
    AsSeq([i \in 1..(lead + 8 * q + 1) |->
              IF i <= lead THEN 0
              ELSE IF i - lead - 1 <= 4 * q
              THEN CycleSample(a1, q, i - lead - 1)
              ELSE CycleSample(a2, q, i - lead - 1 - 4 * q)])

InitFilter ==
    /\ AnalysisIdle
    /\ SmoothIdle
    /\ pc = "unfiltered"
    /\ \E lead \in 0..MaxLead, q \in QuarterSteps, a1 \in Amplitudes,
          a2 \in Amplitudes :
          /\ in_disp = TwoCycles(lead, q, a1, a2)
          /\ in_force = [i \in 1..(lead + 8 * q + 1) |->
                            5 * TwoCycles(lead, q, a1, a2)[i] + i]
    /\ out = [filtered |-> NoSeries]

Filter ==
    /\ pc = "unfiltered"
    /\ out' = [out EXCEPT !.filtered = filter_first_loops(in_disp, in_force)]
    /\ pc' = "filtered"
    /\ UNCHANGED inputs

NextFilter == Filter

SpecFilter == InitFilter /\ [][NextFilter]_vars

(* the samples of the input at the indices of keep, in index order *)
Retained(keep) ==
    [displacement |-> Pick(in_disp, SortedSeq(keep)),
     force |-> Pick(in_force, SortedSeq(keep))]

(* the first member of every group the filter forms on the input *)
FirstPeaks ==
    LET groups == FilterGroups(in_disp)
    IN  {groups[g][1] : g \in 1..Len(groups)}

(* the groups partition the local maxima of |displacement|; every member of *)
(* a group is within 8% of the group's first member                        *)
GroupsAreLevels ==
    LET groups == FilterGroups(in_disp)
        a == AbsSeq(in_disp)
    IN  /\ \A g \in 1..Len(groups) : \A m \in 1..Len(groups[g]) :
              /\ groups[g][m] >= groups[g][1]
              /\ 100 * Abs(a[groups[g][m]] - a[groups[g][1]])
                    <= 8 * a[groups[g][1]]
        /\ \A i \in 2..(Len(a) - 1) :
              (a[i] > a[i - 1] /\ a[i] > a[i + 1]) <=>
                  Cardinality({g \in 1..Len(groups) :
                      \E m \in 1..Len(groups[g]) : groups[g][m] = i}) = 1

(* C10 as stated: the retained samples are those with index in              *)
(* [first_peak - 50, first_peak + 50] inclusive, over all groups            *)
C10_WindowInclusive ==
    (pc = "filtered" /\ FirstPeaks # {}) =>
        out.filtered =
            Retained({i \in 1..Len(in_disp) :
                         \E p \in FirstPeaks : i >= p - 50 /\ i <= p + 50})

(* C10 amended: the retained samples are those with index in                *)
(* [first_peak - 50, first_peak + 49], clipped to the series, over all      *)
(* groups; with all maxima on one level only the window of the first peak   *)
(* of the series remains                                                   *)
C10_WindowHalfOpen ==
    (pc = "filtered" /\ FirstPeaks # {}) =>
        /\ GroupsAreLevels
        /\ out.filtered =
              Retained({i \in 1..Len(in_disp) :
                           \E p \in FirstPeaks : i >= p - 50 /\ i <= p + 49})
        /\ Len(FilterGroups(in_disp)) = 1 =>
              LET p1 == FilterPeaks(in_disp)[1]
              IN  out.filtered.displacement =
                      SubSeq(in_disp, Max(1, p1 - 50),
                             Min(Len(in_disp), p1 + 49))

(* two cycles of near-equal amplitude: one group of four maxima, the        *)
(* window is clipped at the start of the series and ends before the second  *)
(* maximum                                                                 *)
C10_Witness ==
    /\ pc = "filtered"
    /\ Len(FilterGroups(in_disp)) = 1
    /\ Len(FilterGroups(in_disp)[1]) = 4
    /\ Abs(in_disp[FilterPeaks(in_disp)[1]]) #
          Abs(in_disp[FilterPeaks(in_disp)[3]])
    /\ FilterPeaks(in_disp)[1] - 50 < 1
    /\ Len(out.filtered.displacement) = FilterPeaks(in_disp)[1] + 49
    /\ Len(out.filtered.displacement) < Len(in_disp)

----------------------------------------------------------------------------
(* Checking the ductility methods on skeleton branches: displacement 0      *)
(* first, then magnitudes that strictly grow, on one side; in_force holds   *)
(* fractions here, the first one the common intercept of the branch        *)

MaxLenDuct == 5

Magnitudes == {100, 200, 400, 800, 1600}

BranchForces == {0, 300, 1000, -600}

Intercepts == {Zero, <<700, 3>>}

(* the stiffness k of the linear-elastic branches, force = k * displacement *)
Stiffnesses == {Zero, <<3, 1>>, <<-2, 1>>, <<1, 3>>}

InitDuct ==
    /\ AnalysisIdle
    /\ SmoothIdle
    /\ pc = "branch"
    /\ \E n \in 1..MaxLenDuct, sign \in {1, -1}, f0 \in Intercepts :
          \E mags \in {m \in SUBSET Magnitudes : Cardinality(m) = n - 1} :
             /\ in_disp = <<0>> \o [i \in 1..(n - 1) |->
                                       sign * SortedSeq(mags)[i]]
             /\ \/ \E fs \in [1..(n - 1) -> BranchForces] :
                      in_force = <<f0>> \o [i \in 1..(n - 1) |-> FInt(fs[i])]
                \/ \E k \in Stiffnesses :
                      in_force = [i \in 1..n |-> FMul(k, FInt(in_disp[i]))]
    /\ out = [method |-> "none", ductility |-> Zero]

Calc(method) ==
    /\ pc = "branch"
    /\ out' = [method |-> method,
               ductility |-> DuctilityBy(method, in_disp, in_force)]
    /\ pc' = "ductility"
    /\ UNCHANGED inputs

CalcGeometric == Calc("geometric")

CalcEnergy == Calc("energy")

CalcPark == Calc("park")

CalcFarthest == Calc("farthest")

CalcAsce == Calc("asce")

CalcEeep == Calc("eeep")

CalcElasticYield == Calc("elastic_yield")

NextDuct ==
    \/ CalcGeometric
    \/ CalcEnergy
    \/ CalcPark
    \/ CalcFarthest
    \/ CalcAsce
    \/ CalcEeep
    \/ CalcElasticYield

SpecDuct == InitDuct /\ [][NextDuct]_vars

(* the yield displacement a method computes on the branch, <<>> when the    *)
(* method returns before computing one                                     *)
BranchYield(method, disp, force) ==
    CASE method = "geometric" -> GeometricYield(disp, force)
      [] method = "energy"    -> EnergyYield(disp, force)
      [] method = "park"      -> ParkYield(disp, force)
      [] method = "farthest"  -> FarthestYield(disp, force)
      [] method = "asce"      -> AsceYield(disp, force)
      [] method = "eeep"      -> EeepYield(disp, force)
      [] OTHER                -> ElasticYield(disp, force)

YieldOf(method) == BranchYield(method, in_disp, in_force)

(* the displacement a method divides by its yield displacement *)
BranchUltimate(method, disp, force) ==
    CASE method = "geometric" -> GeometricUltimate(disp, force)
      [] method = "park"      -> ParkUltimate(disp)
      [] OTHER                -> FInt(MaxAbsDisp(disp))

UltimateOf(method) == BranchUltimate(method, in_disp, in_force)

(* C6: for each of the seven methods the result is exactly 1.0 whenever the *)
(* yield displacement the method computes is <= 0 (and when it computes     *)
(* none); otherwise the result times the yield displacement is the          *)
(* ultimate displacement                                                   *)
C6_DuctilityGuard ==
    pc = "ductility" =>
        LET y == YieldOf(out.method)
        IN  IF y = <<>> THEN out.ductility = One
            ELSE IF y[1][1] <= 0 THEN out.ductility = One
            ELSE FMul(out.ductility, y[1]) = UltimateOf(out.method)

(* the energy method computes a yield displacement of 0 on a branch whose   *)
(* trapezoid terms cancel                                                  *)
C6_Witness ==
    /\ pc = "ductility"
    /\ out.method = "energy"
    /\ YieldOf("energy") # <<>>
    /\ YieldOf("energy")[1] = Zero
    /\ Len(in_disp) >= 3
    /\ in_force[2] # Zero

(* force = k * displacement at every point of the branch, for some k *)
LinearElastic ==
    \A i \in 1..Len(in_disp) : \A j \in 1..Len(in_disp) :
        FMul(in_force[i], FInt(in_disp[j])) =
            FMul(in_force[j], FInt(in_disp[i]))

(* C11: on every linear-elastic branch of at least 3 points that starts at  *)
(* displacement 0 the Park method returns 1.0, and with a stiffness other   *)
(* than 0 no point's secant stiffness is K0 / 3 or below                    *)
C11_ParkLinearElastic ==
    (pc = "ductility" /\ out.method = "park" /\ Len(in_disp) >= 3
        /\ in_disp[1] = 0 /\ LinearElastic) =>
        /\ out.ductility = One
        /\ InitialK0(in_disp, in_force) # Zero =>
              ParkYieldIdx(in_disp, in_force) = 0

(* a branch of four points with force = displacement / 3 *)
C11_Witness ==
    /\ pc = "ductility"
    /\ out.method = "park"
    /\ Len(in_disp) = 4
    /\ LinearElastic
    /\ InitialK0(in_disp, in_force) = <<1, 3>>
    /\ out.ductility = One

(* C22: for each of the seven methods, the displacement divided by the      *)
(* yield displacement is abs(displacement) at the branch sample with the    *)
(* largest abs(displacement)                                               *)
C22_UltimateIsLargestDisplacement ==
    pc = "ductility" =>
        LET y == YieldOf(out.method)
        IN  y # <<>> /\ FLess(Zero, y[1]) =>
                FMul(out.ductility, y[1]) = FInt(MaxAbsDisp(in_disp))

PositiveAreaAndForce ==
    /\ FLess(Zero, calculate_loop_area(in_disp, in_force))
    /\ FLess(Zero, MaxAbsForce(in_force))

(* C26: on every branch whose trapezoidal area and peak abs(force) are      *)
(* both above 0 the EEEP ductility is twice the energy ductility, the       *)
(* energy yield displacement being twice the EEEP yield displacement       *)
C26_EeepTwiceEnergy ==
    (pc = "ductility" /\ PositiveAreaAndForce) =>
        /\ out.method = "eeep" =>
              /\ out.ductility =
                    FMul(FInt(2), calc_energy_ductility(in_disp, in_force))
              /\ YieldOf("energy")[1] = FMul(FInt(2), YieldOf("eeep")[1])
        /\ out.method = "energy" =>
              FMul(FInt(2), out.ductility) =
                  calc_eeep_ductility(in_disp, in_force)

(* a three-point branch of area 50 and peak force 1: the EEEP yield         *)
(* displacement is 50, the ductility 200 / 50 = 4, the energy ductility 2   *)
C26_Witness ==
    /\ pc = "ductility"
    /\ out.method = "eeep"
    /\ PositiveAreaAndForce
    /\ Len(in_disp) = 3
    /\ out.ductility = FInt(4)
    /\ calc_energy_ductility(in_disp, in_force) = FInt(2)

(* C27: on every branch that starts at displacement 0 with strictly         *)
(* increasing abs(displacement) the geometric, Park, farthest-point and     *)
(* ASCE methods each return a ductility of at least 1.0                     *)
C27_AtLeastOne ==
    (/\ pc = "ductility"
     /\ out.method \in {"geometric", "park", "farthest", "asce"}
     /\ BranchStartsAtZeroAndGrows([disp |-> in_disp])) =>
        FLeq(One, out.ductility)

(* the geometric method on a branch of five points whose force peaks at    *)
(* the third and is nearest to three quarters of the peak at the second:    *)
(* the ductility is 2                                                      *)
C27_Witness ==
    /\ pc = "ductility"
    /\ out.method = "geometric"
    /\ BranchStartsAtZeroAndGrows([disp |-> in_disp])
    /\ Len(in_disp) = 5
    /\ GeometricMaxIdx(in_force) = 3
    /\ GeometricYieldIdx(in_force) = 2
    /\ out.ductility = FInt(2)

----------------------------------------------------------------------------
(* Checking interpolate_smooth: x is a branch's displacement list, possibly *)
(* with repeated values; y is its force list                               *)

MaxLenSmooth == 5

XValues == {0, 100, 200, 300}

SmoothnessValues == {0, 600, 3000, 10000}

PointChoices == {100, 300}

FaultCases ==
    { {}, {"settings"}, {"algorithm"}, {"bezier_curve"}, {"bezier_remap"},
      {"bezier_curve", "bezier_spline"},
      {"bezier_curve", "bezier_spline", "bezier_interp"} }

Monotone(x) ==
    \/ \A i \in 1..(Len(x) - 1) : x[i] <= x[i + 1]
    \/ \A i \in 1..(Len(x) - 1) : x[i] >= x[i + 1]

InitSmooth ==
    /\ AnalysisIdle
    /\ pc = "points"
    /\ \E n \in 1..MaxLenSmooth :
          \E x \in {s \in [1..n -> XValues] : Monotone(s)} :
             /\ in_disp = x
             /\ in_force = [i \in 1..n |-> 10 * x[i] + i]
    /\ algorithm \in Algorithms
    /\ smoothness \in SmoothnessValues
    /\ num_points \in PointChoices
    /\ plot_style = "smooth"
    /\ show_original_points = TRUE
    /\ canvas = <<>>
    /\ out = [result |-> Original(<<>>, <<>>, {}), faults |-> {}]

Smooth ==
    /\ pc = "points"
    /\ \E faults \in FaultCases :
          out' = [result |-> interpolate_smooth(in_disp, in_force, algorithm,
                                                smoothness, num_points,
                                                faults),
                  faults |-> faults]
    /\ pc' = "smoothed"
    /\ UNCHANGED inputs

NextSmooth == Smooth

SpecSmooth == InitSmooth /\ [][NextSmooth]_vars

Usable == Cardinality({in_disp[i] : i \in 1..Len(in_disp)})

(* the steps of faults that the call of interpolate_smooth executed *)
FaultHit ==
    /\ Len(in_disp) >= 4
    /\ Usable >= 4
    /\ \/ "settings" \in out.faults
       \/ algorithm # "Bezier" /\ "algorithm" \in out.faults
       \/ /\ algorithm = "Bezier"
          /\ out.faults \cap {"bezier_curve", "bezier_remap"} # {}

(* C7: with no failing step, every algorithm returns exactly num_points     *)
(* points when the source has at least 4 distinct x values, and the         *)
(* original (x, y) when it has fewer                                       *)
C7_SmoothPointCount ==
    (pc = "smoothed" /\ ~FaultHit) =>
        IF Usable >= 4
        THEN out.result.kind = "smoothed" /\ out.result.n = num_points
        ELSE /\ out.result.kind = "original"
             /\ out.result.x = in_disp
             /\ out.result.y = in_force

C7_Witness ==
    /\ pc = "smoothed"
    /\ out.faults = {}
    /\ algorithm = "SavitzkyGolay"
    /\ smoothness = 600
    /\ Usable = 4
    /\ Len(in_disp) = 5
    /\ out.result.n = num_points
    /\ num_points # Len(in_disp)

(* C12: the window length the Savitzky-Golay branch passes to the filter   *)
(* is odd, at least 3 and below num_points (the parameter 6 gives 7), the   *)
(* polynomial order is min(3, window - 1), that is 2 for a window of 3 and  *)
(* 3 otherwise, and the filter accepts them                                *)
C12_SavgolWindowOdd ==
    (pc = "smoothed" /\ algorithm = "SavitzkyGolay" /\ Usable >= 4
        /\ ~FaultHit) =>
        LET w == SavgolWindow(smoothness, num_points)
        IN  /\ w % 2 = 1
            /\ w >= 3
            /\ w < num_points
            /\ smoothness = 600 => w = 7
            /\ SavgolPolyorder(w) = (IF w = 3 THEN 2 ELSE 3)
            /\ out.result.kind = "smoothed"
            /\ out.result.by = "SavitzkyGolay"

(* the parameter 100 with 100 points: 101 is clipped to 99 *)
C12_Witness ==
    /\ pc = "smoothed"
    /\ algorithm = "SavitzkyGolay"
    /\ Usable >= 4
    /\ out.faults = {}
    /\ smoothness = 10000
    /\ num_points = 100
    /\ SavgolWindow(smoothness, num_points) = 99
    /\ out.result.by = "SavitzkyGolay"

(* C8 as stated: when a step of the call fails, a smoothing failure is      *)
(* reported and the original (x, y) is returned                            *)
C8_FailureReturnsOriginal ==
    (pc = "smoothed" /\ FaultHit) =>
        /\ out.result.reported # {}
        /\ out.result.kind = "original"
        /\ out.result.x = in_disp
        /\ out.result.y = in_force

(* C8 amended: a failing step never escapes the call.  A failure outside    *)
(* bezier_curve, or one that bezier_curve cannot recover from, is reported  *)
(* and returns the original (x, y); a failure of the Bezier remapping       *)
(* returns num_points points by nearest lookup without a report; a failure  *)
(* of the Bezier construction is reported and returns num_points points     *)
(* from the fallback spline or linear interpolation                        *)
C8_FailureRecovered ==
    (pc = "smoothed" /\ FaultHit) =>
        LET r == out.result
            inBezier == algorithm = "Bezier" /\ "settings" \notin out.faults
            lost == {"bezier_curve", "bezier_spline", "bezier_interp"}
                        \subseteq out.faults
        IN  /\ r.kind \in {"original", "smoothed"}
            /\ (~inBezier \/ lost) =>
                  /\ "Smoothing interpolation failed" \in r.reported
                  /\ r.kind = "original" /\ r.x = in_disp /\ r.y = in_force
            /\ (inBezier /\ ~lost) =>
                  /\ r.kind = "smoothed" /\ r.n = num_points
                  /\ "bezier_curve" \in out.faults =>
                        /\ "Failed to generate Bezier curve" \in r.reported
                        /\ r.by \in {"Bezier fallback spline",
                                     "Bezier fallback linear"}
                  /\ "bezier_curve" \notin out.faults =>
                        r.by = "Bezier nearest" /\ r.reported = {}

C8_Witness ==
    /\ pc = "smoothed"
    /\ FaultHit
    /\ algorithm = "Bezier"
    /\ out.faults = {"bezier_curve", "bezier_spline"}
    /\ out.result.by = "Bezier fallback linear"

----------------------------------------------------------------------------
(* Checking the control points of bezier_curve: a sorted source of          *)
(* n_points distinct x values and a control point density in whole          *)
(* percents from 10 to 100, the range of the spin box                      *)

MaxBezierPoints == 12

InitBezier ==
    /\ AnalysisIdle
    /\ pc = "source"
    /\ \E n \in 4..MaxBezierPoints :
          /\ in_disp = [i \in 1..n |-> 100 * (i - 1)]
          /\ in_force = [i \in 1..n |-> 1000 * i]
    /\ algorithm = "Bezier"
    /\ smoothness \in {100 * pct : pct \in 10..100}
    /\ num_points = 300
    /\ plot_style = "smooth"
    /\ show_original_points = TRUE
    /\ canvas = <<>>
    /\ out = <<>>

SelectControlPoints ==
    /\ pc = "source"
    /\ out' = BezierControlIndices(Len(in_disp), smoothness)
    /\ pc' = "control"
    /\ UNCHANGED inputs

NextBezier == SelectControlPoints

SpecBezier == InitBezier /\ [][NextBezier]_vars

(* round(num / den) as Python rounds: a half goes to the even neighbour *)
RoundHalfEven(num, den) ==
    LET q == num \div den
        r == num % den
    IN  IF 2 * r < den THEN q
        ELSE IF 2 * r > den THEN q + 1
        ELSE IF q % 2 = 0 THEN q ELSE q + 1

ControlSubsetShape ==
    /\ out[1] = 1
    /\ out[Len(out)] = Len(in_disp)
    /\ \A k \in 1..(Len(out) - 1) : out[k] < out[k + 1]

(* C25 as stated: the control points hold the first and the last source     *)
(* point, repeat no index, and number at least max(4, round(N * ratio)),    *)
(* or N when that is N or more                                             *)
C25_AtLeastRounded ==
    pc = "control" =>
        /\ ControlSubsetShape
        /\ Len(out) >= Min(Len(in_disp),
                           Max(4, RoundHalfEven(Len(in_disp) * smoothness,
                                                10000)))

(* C25: the control points hold the first and the last source point,        *)
(* repeat no index, and number exactly max(4, N * ratio truncated to an     *)
(* integer), or N when that is N or more                                   *)
C25_ExactlyTruncated ==
    pc = "control" =>
        /\ ControlSubsetShape
        /\ Len(out) = Min(Len(in_disp),
                          Max(4, (Len(in_disp) * smoothness) \div 10000))

(* 12 source points at 47 percent: 5 control points, a proper subset with   *)
(* uneven index steps                                                      *)
C25_Witness ==
    /\ pc = "control"
    /\ Len(in_disp) = 12
    /\ smoothness = 4700
    /\ out = <<1, 3, 6, 9, 12>>

----------------------------------------------------------------------------
(* Checking the divisions of calculate_indices, calculate_degradation and   *)
(* calculate_ductility: one run of update_analysis on a short working       *)
(* series, or on a longer record that brings a zero denominator about, and  *)
(* the ductility methods on the skeleton branches of InitDuct              *)

MaxLenMetrics == 3

(* the longer records: four positive loops, the first of them with a peak   *)
(* force of 0; first loaded samples that carry one force, so that the       *)
(* fitted initial stiffness is 0; loops with area whose last positive peak  *)
(* carries a force of 0; one rising cycle, which holds a single loop; the   *)
(* scenario series                                                         *)
MetricRecords ==
    { << <<0, 3000, 0, 4000, 0, 4000, 0, 4000, 0, 4000, 0>>,
         <<0, 0, 0, 20000, 0, 20000, 0, 20000, 0, 20000, 0>> >>,
      << <<0, 2000, 4000, 2000, 4000, 2000, 0, -2000, -4000, -2000, 0>>,
         <<0, 10000, 10000, 10000, 10000, 10000, 0,
           -10000, -20000, -15000, 0>> >>,
      << <<0, 2000, 0, -2000, 0, 3000, 0, -2000, 0, 3000, 0>>,
         <<0, 10000, 5000, -10000, -5000, 0, 5000, -10000, -5000, 0, 0>> >>,
      << <<0, 1000, 2000, 3000, 4000, 2000, 0,
           -1000, -2000, -3000, -4000, -2000, 0>>,
         <<0, 5000, 10000, 14000, 16000, 6000, -2000,
           -5000, -10000, -14000, -16000, -6000, 2000>> >>,
      <<ScenarioDisp, ScenarioForce>> }

InitMetrics ==
    /\ AnalysisIdle
    /\ SmoothIdle
    /\ pc = "series"
    /\ \/ \E s \in RawSeries(SegSamples, MaxLenMetrics) :
             /\ in_disp = [i \in 1..Len(s) |-> s[i][1]]
             /\ in_force = [i \in 1..Len(s) |-> s[i][2]]
       \/ \E r \in MetricRecords : in_disp = r[1] /\ in_force = r[2]
    /\ out = [method |-> "outer_envelope", dir |-> "both",
              duct |-> "geometric", loops |-> <<>>, skeleton |-> NoSkeleton,
              indices |-> NoIndices]

(* update_analysis on the series as the loaded data, the first-loop filter  *)
(* off, under each skeleton method, direction and ductility method         *)
Metrics ==
    /\ pc = "series"
    /\ \E method \in {"outer_envelope", "peak_points"},
          dir \in {"both", "positive", "negative"},
          duct \in DuctilityMethods :
       \E r \in {AnalysisOf([loaded |-> TRUE, file |-> 0,
                             displacement |-> in_disp, force |-> in_force,
                             filtered |-> <<>>],
                            FALSE, method, dir, duct)} :
           out' = [method |-> method, dir |-> dir, duct |-> duct,
                   loops |-> r.loops, skeleton |-> r.skeleton,
                   indices |-> r.indices]
    /\ pc' = "analysed"
    /\ UNCHANGED inputs

InitDivisions == InitMetrics \/ InitDuct

NextDivisions == Metrics \/ NextDuct

SpecDivisions == InitDivisions /\ [][NextDivisions]_vars

(* the metrics stored as one quotient *)
QuotientKeys ==
    {"secant_stiffness", "initial_stiffness",
     "equivalent_viscous_damping_times_pi", "mean_loop_energy",
     "strength_degradation_positive", "strength_degradation_negative",
     "stiffness_degradation"}

(* abs(peak force) of the loops of one kind, in loop order *)
KindForces(loops, kind) ==
    LET same == SelectSeq(loops, LAMBDA l : l.type = kind)
    IN  [k \in 1..Len(same) |-> Abs(same[k].peak_force)]

(* the quotients abs(force[i] / disp[i]) at the positions lo .. hi whose    *)
(* displacement is not 0                                                   *)
SecantQuotients(disp, force, lo, hi) ==
    {FAbs(FDiv(force[i], FInt(disp[i]))) :
        i \in {k \in lo..hi : disp[k] # 0}}

(* the squared length of the chord from the origin to the branch's point    *)
(* of largest displacement, the farthest-point method's denominator        *)
ChordLengthSq(disp, force) ==
    LET max_idx == ArgMax(AbsSeq(disp))
    IN  FAdd(FMul(force[max_idx], force[max_idx]),
             FInt(disp[max_idx] * disp[max_idx]))

(* the divisions of one ductility method on one branch: each denominator    *)
(* it divides by is not 0, and its result is 1.0 where it divides by none  *)
BranchDivisionsSafe(method, disp, force, value) ==
    LET y == BranchYield(method, disp, force)
        K0 == InitialK0(disp, force)
    IN  /\ value[2] > 0
        /\ IF y = <<>> THEN value = One
           ELSE IF ~FLess(Zero, y[1]) THEN value = One
           ELSE /\ y[1][2] > 0
                /\ value = FDiv(BranchUltimate(method, disp, force), y[1])
        /\ method \in {"energy", "eeep"} /\ y # <<>> =>
               FLess(Zero, MaxAbsForce(force))
        /\ method \in {"park", "elastic_yield"} =>
               /\ K0 \in SecantQuotients(disp, force, 2, Min(5, Len(disp)))
                            \cup {Zero}
               /\ y # <<>> => K0 # Zero /\ K0[2] > 0
        /\ method = "farthest" /\ y # <<>> =>
               ChordLengthSq(disp, force) # Zero

(* C15: no metric and no ductility computation divides by zero: a metric    *)
(* that is a quotient is stored only when its denominator (the last         *)
(* skeleton displacement, the hysteresis triangle area, the first loop      *)
(* peak force, the initial stiffness, the number of loops with area) is     *)
(* not 0 and is omitted otherwise, and a ductility method divides by a      *)
(* yield displacement, a stiffness K0, a peak force or a chord length only  *)
(* when it is not 0 and returns 1.0 otherwise                              *)
C15_NoDivisionByZero ==
    /\ pc = "ductility" =>
           BranchDivisionsSafe(out.method, in_disp, in_force, out.ductility)
    /\ pc = "analysed" =>
        LET ind == out.indices
            pos == out.skeleton.positive
            last == Len(pos.disp)
        IN  /\ \A key \in QuotientKeys \cap DOMAIN ind : ind[key][2] > 0
            /\ Has(ind, "secant_stiffness") =>
                   /\ last > 1 /\ pos.disp[last] # 0
                   /\ ind["secant_stiffness"] =
                          FDiv(pos.force[last], FInt(pos.disp[last]))
            /\ Has(ind, "equivalent_viscous_damping_times_pi") =>
                   /\ last > 1 /\ pos.disp[last] # 0
                   /\ pos.force[last] # Zero
            /\ Has(ind, "mean_loop_energy") =>
                   \E k \in 1..Len(out.loops) :
                       FLess(Zero, out.loops[k].area)
            /\ \A kind \in {"positive", "negative"} :
                   Has(ind, "strength_degradation_" \o kind) =>
                       /\ Len(KindForces(out.loops, kind)) >= 2
                       /\ KindForces(out.loops, kind)[1] # 0
            /\ Has(ind, "stiffness_degradation") =>
                   /\ Has(ind, "initial_stiffness")
                   /\ ind["initial_stiffness"] # Zero
            /\ \A dir \in {"positive", "negative"} :
                   LET key == "ductility_" \o dir \o "_" \o out.duct
                       curve == out.skeleton[dir]
                   IN  Has(ind, key) =>
                           BranchDivisionsSafe(out.duct, curve.disp,
                                               curve.force, ind[key])

(* C21: the stiffness degradation is in the metric set exactly when the     *)
(* initial stiffness and the secant stiffness are both in it and the        *)
(* initial stiffness is not 0; its value is                                 *)
(* (K_initial - K_secant) / K_initial * 100                                *)
C21_StiffnessDegradationPresence ==
    pc = "analysed" =>
        LET ind == out.indices
            both == /\ Has(ind, "initial_stiffness")
                    /\ Has(ind, "secant_stiffness")
        IN  /\ Has(ind, "stiffness_degradation") <=>
                   (both /\ ind["initial_stiffness"] # Zero)
            /\ Has(ind, "stiffness_degradation") =>
                   ind["stiffness_degradation"] =
                       FMul(FDiv(FSub(ind["initial_stiffness"],
                                      ind["secant_stiffness"]),
                                 ind["initial_stiffness"]), FInt(100))

(* C21 with the early return of calculate_degradation: as C21 when the      *)
(* loop list holds two loops or more, and no stiffness degradation when it  *)
(* holds fewer                                                             *)
C21_WithTwoLoops ==
    pc = "analysed" =>
        LET ind == out.indices
            both == /\ Has(ind, "initial_stiffness")
                    /\ Has(ind, "secant_stiffness")
        IN  /\ Has(ind, "stiffness_degradation") <=>
                   /\ Len(out.loops) >= 2
                   /\ both
                   /\ ind["initial_stiffness"] # Zero
            /\ Has(ind, "stiffness_degradation") =>
                   ind["stiffness_degradation"] =
                       FMul(FDiv(FSub(ind["initial_stiffness"],
                                      ind["secant_stiffness"]),
                                 ind["initial_stiffness"]), FInt(100))

(* the branch of one direction is among those the direction widget asks    *)
(* for                                                                     *)
Requested(dir_name) == out.dir \in {dir_name, "both"}

DuctilityKey(dir_name) == "ductility_" \o dir_name \o "_" \o out.duct

(* C23 as stated: a requested branch gets no ductility entry exactly when   *)
(* it has fewer than 2 points                                              *)
C23_EmptyBelowTwoPoints ==
    pc = "analysed" =>
        \A dir_name \in {"positive", "negative"} :
            Requested(dir_name) =>
                (Has(out.indices, DuctilityKey(dir_name)) <=>
                     Len(out.skeleton[dir_name].disp) >= 2)

(* C23: a requested branch gets no ductility entry exactly when it has      *)
(* fewer than 3 points; every requested branch with 3 or more points gets   *)
(* a ductility value, and a branch that is not requested gets none         *)
C23_EmptyBelowThreePoints ==
    pc = "analysed" =>
        \A dir_name \in {"positive", "negative"} :
            Has(out.indices, DuctilityKey(dir_name)) <=>
                /\ Requested(dir_name)
                /\ Len(out.skeleton[dir_name].disp) >= 3

(* both branches requested: one of two points without an entry, one of      *)
(* three points with an entry                                              *)
C23_Witness ==
    /\ pc = "analysed"
    /\ out.dir = "both"
    /\ Len(out.skeleton.positive.disp) = 2
    /\ ~Has(out.indices, DuctilityKey("positive"))
    /\ Len(out.skeleton.negative.disp) = 3
    /\ Has(out.indices, DuctilityKey("negative"))

(* a record with two or more positive loops whose first peak force is 0:    *)
(* the positive strength degradation is omitted                            *)
C15_Witness ==
    /\ pc = "analysed"
    /\ Len(KindForces(out.loops, "positive")) >= 2
    /\ KindForces(out.loops, "positive")[1] = 0
    /\ ~Has(out.indices, "strength_degradation_positive")
    /\ Has(out.indices, "secant_stiffness")

----------------------------------------------------------------------------
(* The analysis window on imported files.  A file is a two-cycle            *)
(* triangular record whose samples carry a small sawtooth, so that a        *)
(* displacement is not met twice, and whose force lags the displacement.   *)
(* A click on a radio button emits toggled for the button left and for the  *)
(* button entered; both calls of update_analysis read the same widget       *)
(* state, so one action stands for the pair.                               *)

FileQuarter == 13

FileScale == 3

FileSawtooth == 7

FileLag == 150

MaxFiles == 2

(* the amplitudes of the two cycles of each importable file *)
FileAmplitudes == <<<<260, 273>>, <<130, 260>>, <<273, 260>>>>

FileDisplacement(file) ==
    LET a == FileAmplitudes[file]
        q == FileQuarter
        cycles == TwoCycles(0, q, a[1], a[2])
    IN  AsSeq([i \in 1..(8 * q + 1) |->
                  FileScale * cycles[i] + ((i - 1) % FileSawtooth)])

FileForce(file) ==
    LET d == FileDisplacement(file)
        q == FileQuarter
    IN  AsSeq([i \in 1..(8 * q + 1) |->
                  LET k == (i - 1) % (4 * q)
                  IN  3 * d[i] + (IF k < q \/ k >= 3 * q
                                  THEN -FileLag ELSE FileLag)])

(* load_data: the file's two columns, cleaned; no filtered copy yet *)
load_data(file) ==
    LET clean == preprocess_data(FileDisplacement(file), FileForce(file))
    IN  [loaded |-> TRUE, file |-> file,
         displacement |-> clean.displacement, force |-> clean.force,
         filtered |-> <<>>]

(* one skeleton branch as update_plot draws it: nothing when the direction  *)
(* leaves it out or it has one point at most; the smoothed curve, with the  *)
(* branch points as markers if the box asks for them, in the smooth style   *)
(* on 4 points or more; the branch as a line with markers otherwise.  The   *)
(* library steps of interpolate_smooth are taken not to fail here.         *)
DrawBranch(curve, wanted, style, algo, smooth100, n, show) ==
    IF ~wanted \/ Len(curve.disp) <= 1 THEN <<>>
    ELSE IF style = "smooth" /\ Len(curve.disp) >= 4
    THEN <<[line |-> interpolate_smooth(curve.disp, curve.force, algo,
                                        smooth100, n, {}),
            markers |-> show]>>
    ELSE <<[line |-> Original(curve.disp, curve.force, {}),
            markers |-> TRUE]>>

(* update_plot: the hysteresis curve of the working series and the skeleton *)
(* branches of the direction shown.  The label of the negative start point  *)
(* reads pos_curve, which is unbound when only the negative direction is    *)
(* shown: the call then raises before canvas.draw().                       *)
update_plot(cd, skeleton, dir, style, algo, smooth100, n, show) ==
    LET w == WorkingSeries(cd)
        skel == IF skeleton = <<>> THEN NoSkeleton ELSE skeleton[1]
    IN  [hysteresis |-> Len(w.displacement),
         positive |-> DrawBranch(skel.positive, dir \in {"both", "positive"},
                                 style, algo, smooth100, n, show),
         negative |-> DrawBranch(skel.negative, dir \in {"both", "negative"},
                                 style, algo, smooth100, n, show),
         smooth_label |-> IF style = "smooth" THEN algo ELSE "none",
         raised |-> dir = "negative" /\ Len(skel.negative.disp) > 1]

(* faulty variant: the metric set not emptied before it is filled *)
update_analysis_keeping(cd, filter, method, dir, duct) ==
    IF ~cd.loaded
    THEN UNCHANGED <<current_data, hysteresis_loops, skeleton_curve, indices,
                     canvas>>
    ELSE \E r \in {AnalysisOf(cd, filter, method, dir, duct)} :
             /\ current_data' = r.data
             /\ hysteresis_loops' = r.loops
             /\ skeleton_curve' = <<r.skeleton>>
             /\ indices' = r.indices @@ indices
             /\ canvas' = update_plot(r.data, <<r.skeleton>>, dir, plot_style,
                                      algorithm, smoothness, num_points,
                                      show_original_points)

(* update_analysis under the widget values given, on the data given *)
update_analysis(cd, filter, method, dir, duct) ==
    IF ~cd.loaded
    THEN UNCHANGED <<current_data, hysteresis_loops, skeleton_curve, indices,
                     canvas>>
    ELSE \E r \in {AnalysisOf(cd, filter, method, dir, duct)} :
             /\ current_data' = r.data
             /\ hysteresis_loops' = r.loops
             /\ skeleton_curve' = <<r.skeleton>>
             /\ indices' = r.indices
             /\ canvas' = update_plot(r.data, <<r.skeleton>>, dir, plot_style,
                                      algorithm, smoothness, num_points,
                                      show_original_points)

stages == <<pc, in_disp, in_force, out, algorithm, smoothness, num_points,
            plot_style, show_original_points>>

Init ==
    /\ AnalysisIdle
    /\ SmoothIdle
    /\ pc = "window"
    /\ in_disp = <<>>
    /\ in_force = <<>>
    /\ out = <<>>

(* on_file_select *)
SelectFile ==
    \E file \in 1..Min(MaxFiles, Len(FileAmplitudes)) :
    \E loaded \in {load_data(file)} :
        /\ update_analysis(loaded, filter_first_loop, skeleton_method,
                           direction, ductility_method)
        /\ UNCHANGED <<stages, filter_first_loop, skeleton_method, direction,
                       ductility_method>>

(* filter_first_loop.stateChanged *)
ToggleFilter ==
    /\ filter_first_loop' = ~filter_first_loop
    /\ update_analysis(current_data, filter_first_loop', skeleton_method,
                       direction, ductility_method)
    /\ UNCHANGED <<stages, skeleton_method, direction, ductility_method>>

(* rb_outer / rb_peak toggled *)
SetSkeletonMethod ==
    /\ skeleton_method' = IF skeleton_method = "outer_envelope"
                          THEN "peak_points" ELSE "outer_envelope"
    /\ update_analysis(current_data, filter_first_loop, skeleton_method',
                       direction, ductility_method)
    /\ UNCHANGED <<stages, filter_first_loop, direction, ductility_method>>

(* rb_both / rb_positive / rb_negative toggled *)
SetDirection ==
    \E d \in {"both", "positive", "negative"} \ {direction} :
        /\ direction' = d
        /\ update_analysis(current_data, filter_first_loop, skeleton_method,
                           d, ductility_method)
        /\ UNCHANGED <<stages, filter_first_loop, skeleton_method,
                       ductility_method>>

(* the ductility radio buttons toggled *)
SetDuctilityMethod ==
    \E m \in DuctilityMethods \ {ductility_method} :
        /\ ductility_method' = m
        /\ update_analysis(current_data, filter_first_loop, skeleton_method,
                           direction, m)
        /\ UNCHANGED <<stages, filter_first_loop, skeleton_method, direction>>

Next ==
    \/ SelectFile
    \/ ToggleFilter
    \/ SetSkeletonMethod
    \/ SetDirection
    \/ SetDuctilityMethod

Spec == Init /\ [][Next]_vars

(* one fresh run from the loaded series under the current widget values *)
FreshRun ==
    AnalysisOf([current_data EXCEPT !.filtered = <<>>], filter_first_loop,
               skeleton_method, direction, ductility_method)

(* C1: on a loaded file the stored loops, skeleton and metric set (with its *)
(* ductility entries) are those of one fresh run from the loaded series     *)
(* under the current parameter values                                      *)
C1_StoredIsFreshRun ==
    current_data.loaded =>
        /\ hysteresis_loops = FreshRun.loops
        /\ skeleton_curve = <<FreshRun.skeleton>>
        /\ indices = FreshRun.indices

(* every ductility key a metric set can hold *)
AllDuctilityKeys ==
    {"ductility_" \o d \o "_" \o m :
        d \in {"positive", "negative"}, m \in DuctilityMethods}

(* C24: after every analysis run the metric set holds ductility entries     *)
(* only for the selected method and only for the direction or directions    *)
(* shown; no entry of a method or direction selected before remains        *)
C24_OnlyCurrentDuctility ==
    \A d \in {"positive", "negative"}, m \in DuctilityMethods :
        Has(indices, "ductility_" \o d \o "_" \o m) =>
            /\ current_data.loaded
            /\ m = ductility_method
            /\ direction \in {d, "both"}

(* a loaded file after the method and the direction were both changed: the  *)
(* one ductility entry is the one of the negative branch under Park        *)
C24_Witness ==
    /\ current_data.loaded
    /\ ductility_method = "park"
    /\ direction = "negative"
    /\ DOMAIN indices \cap AllDuctilityKeys = {"ductility_negative_park"}

----------------------------------------------------------------------------
(* The smoothing widgets of the window, on short imported files.  The       *)
(* widgets below the plot style sit in smooth_container, which is shown     *)
(* only while the style is "smooth"; the parameter spin box is shown only   *)
(* for the algorithms that take a parameter.                               *)

MaxShortFiles == 2

(* one rising cycle; two rising cycles; the scenario shape: the samples of  *)
(* a file differ in displacement by more than the cleaning tolerance       *)
ShortFiles ==
    << << <<0, 1000, 2000, 3000, 4000, 2010, 10,
            -1000, -2000, -3000, -4000, -2010, -10>>,
          <<0, 5000, 10000, 14000, 16000, 6000, -2000,
            -5000, -10000, -14000, -16000, -6000, 2000>> >>,
       << <<0, 1000, 2000, 20, -1000, -2000, -20,
            3000, 4000, 40, -3000, -4000, -40>>,
          <<0, 5000, 10000, 3000, -5000, -10000, -3000,
            14000, 16000, 4000, -14000, -16000, -4000>> >>,
       << <<0, 2000, 4000, 2010, 10, -2000, -4000, -2010, -10>>,
          <<0, 10000, 20000, 15000, 0, -10000, -20000, -15000, 0>> >> >>

(* load_data on a short file *)
load_short_file(file) ==
    LET clean == preprocess_data(ShortFiles[file][1], ShortFiles[file][2])
    IN  [loaded |-> TRUE, file |-> file,
         displacement |-> clean.displacement, force |-> clean.force,
         filtered |-> <<>>]

(* on_file_select *)
SelectShortFile ==
    \E file \in 1..Min(MaxShortFiles, Len(ShortFiles)) :
    \E loaded \in {load_short_file(file)} :
        /\ update_analysis(loaded, filter_first_loop, skeleton_method,
                           direction, ductility_method)
        /\ UNCHANGED <<stages, filter_first_loop, skeleton_method, direction,
                       ductility_method>>

(* faulty variant: the arrays drawn for the positive branch stored back     *)
(* into the skeleton                                                       *)
update_plot_only_storing(style, algo, smooth100, n, show) ==
    LET drawn == update_plot(current_data, skeleton_curve, direction, style,
                             algo, smooth100, n, show)
    IN  /\ canvas' = IF current_data.loaded THEN drawn ELSE canvas
        /\ skeleton_curve' =
               IF current_data.loaded /\ drawn.positive # <<>>
               THEN <<[skeleton_curve[1] EXCEPT !.positive =
                          [disp |-> drawn.positive[1].line.x,
                           force |-> drawn.positive[1].line.y]]>>
               ELSE skeleton_curve
        /\ UNCHANGED <<current_data, hysteresis_loops, indices>>

(* update_plot_only under the widget values given: the plot is drawn again  *)
(* when data is loaded; the analysis is not run                            *)
update_plot_only(style, algo, smooth100, n, show) ==
    /\ canvas' = IF current_data.loaded
                 THEN update_plot(current_data, skeleton_curve, direction,
                                  style, algo, smooth100, n, show)
                 ELSE canvas
    /\ UNCHANGED <<current_data, hysteresis_loops, skeleton_curve, indices>>

settings == <<filter_first_loop, skeleton_method, direction,
              ductility_method, pc, in_disp, in_force, out>>

(* on_plot_style_changed: rb_line / rb_smooth toggled *)
SetPlotStyle ==
    /\ plot_style' = IF plot_style = "line" THEN "smooth" ELSE "line"
    /\ update_plot_only(plot_style', algorithm, smoothness, num_points,
                        show_original_points)
    /\ UNCHANGED <<settings, algorithm, smoothness, num_points,
                   show_original_points>>

(* update_smoothness_range: the spin box value the algorithm starts from    *)
update_smoothness_range(algo, value100) ==
    CASE algo = "Bezier"           -> 3000
      [] algo = "BSpline"          -> 200
      [] algo = "SavitzkyGolay"    -> 700
      [] algo = "UnivariateSpline" -> 100
      [] OTHER                     -> value100

(* on_algorithm_changed *)
SetAlgorithm ==
    /\ plot_style = "smooth"
    /\ \E a \in Algorithms \ {algorithm} :
          /\ algorithm' = a
          /\ smoothness' = update_smoothness_range(a, smoothness)
          /\ update_plot_only(plot_style, a, smoothness', num_points,
                              show_original_points)
    /\ UNCHANGED <<settings, plot_style, num_points, show_original_points>>

(* values typed into the spin box, within the range of the algorithm *)
SpinboxValues(algo) ==
    CASE algo = "Bezier"        -> {1000, 3000, 10000}
      [] algo = "SavitzkyGolay" -> {300, 600, 5000}
      [] algo \in {"BSpline", "UnivariateSpline"} -> {0, 100, 1000}
      [] OTHER -> {}

(* on_smoothness_changed: an even Savitzky-Golay window is made odd *)
on_smoothness_changed(algo, value100) ==
    IF algo = "SavitzkyGolay" /\ (value100 \div 100) % 2 = 0
    THEN 100 * ((value100 \div 100) + 1)
    ELSE value100

(* smoothness_spinbox.valueChanged *)
SetSmoothness ==
    /\ plot_style = "smooth"
    /\ \E v \in SpinboxValues(algorithm) :
          /\ smoothness' = on_smoothness_changed(algorithm, v)
          /\ smoothness' # smoothness
          /\ update_plot_only(plot_style, algorithm, smoothness', num_points,
                              show_original_points)
    /\ UNCHANGED <<settings, plot_style, algorithm, num_points,
                   show_original_points>>

(* interp_points.currentTextChanged *)
SetNumPoints ==
    /\ plot_style = "smooth"
    /\ \E n \in {100, 200, 300, 500, 1000} \ {num_points} :
          /\ num_points' = n
          /\ update_plot_only(plot_style, algorithm, smoothness, n,
                              show_original_points)
    /\ UNCHANGED <<settings, plot_style, algorithm, smoothness,
                   show_original_points>>

(* show_original_points.stateChanged *)
ToggleShowOriginal ==
    /\ plot_style = "smooth"
    /\ show_original_points' = ~show_original_points
    /\ update_plot_only(plot_style, algorithm, smoothness, num_points,
                        show_original_points')
    /\ UNCHANGED <<settings, plot_style, algorithm, smoothness, num_points>>

NextDisplay ==
    \/ SelectShortFile
    \/ SetPlotStyle
    \/ SetAlgorithm
    \/ SetSmoothness
    \/ SetNumPoints
    \/ ToggleShowOriginal

SpecDisplay == Init /\ [][NextDisplay]_vars

(* C14: a step that changes a smoothing setting (plot style, algorithm,     *)
(* parameter, number of points, show-original-points) leaves the cleaned    *)
(* series, the loops, the skeleton and the metric set with its ductility    *)
(* entries as they were                                                    *)
C14_SmoothingIsDisplayOnly ==
    [][(<<plot_style, algorithm, smoothness, num_points,
          show_original_points>>' #
        <<plot_style, algorithm, smoothness, num_points,
          show_original_points>>)
       => UNCHANGED <<current_data, hysteresis_loops, skeleton_curve,
                      indices>>]_vars

(* every smoothing setting differs from its start value and the positive    *)
(* branch of a loaded file is drawn smoothed                               *)
C14_Witness ==
    /\ current_data.loaded
    /\ plot_style = "smooth"
    /\ algorithm = "SavitzkyGolay"
    /\ smoothness = 5100
    /\ num_points = 1000
    /\ ~show_original_points
    /\ canvas # <<>>
    /\ canvas.positive # <<>>
    /\ canvas.positive[1].line.kind = "smoothed"
    /\ canvas.positive[1].line.n = 1000
    /\ indices # NoIndices

----------------------------------------------------------------------------
(* The file list and the undo history.  out holds data_files and history;   *)
(* pc names the handler that ran last.  No listed file is opened here, so   *)
(* current_data stays None.  A path is a directory and a file name; the     *)
(* list entry of a path carries the path and Path(file).name.              *)

HistoryLimit == 30      \* len(self.history) > 30

Paths == {[dir |-> "a", name |-> "run.txt"], [dir |-> "b", name |-> "run.txt"]}

(* the changes of snapshot within one run of the window are bounded: the    *)
(* history holds at most MaxTurns places where a snapshot differs from the  *)
(* one before it                                                           *)
MaxTurns == 1

Turns(h) == Cardinality({k \in 1..(Len(h) - 1) : h[k] # h[k + 1]})

(* what QFileDialog.getOpenFileNames returns when it is not cancelled *)
Selections ==
    {files \in UNION {[1..n -> Paths] : n \in 1..Cardinality(Paths)} :
        \A i, j \in 1..Len(files) : i # j => files[i] # files[j]}

PathName(file) == file.name

(* faulty variant: every selected file is appended *)
AppendAll(listed, files) ==
    listed \o [i \in 1..Len(files) |->
                  [path |-> files[i], name |-> PathName(files[i])]]

(* the loop of import_files: a selected file is appended unless its path    *)
(* is in the list already                                                  *)
RECURSIVE AppendUnlisted(_, _)
AppendUnlisted(listed, files) ==
    IF files = <<>> THEN listed
    ELSE LET file == Head(files)
             paths == {listed[i].path : i \in 1..Len(listed)}
         IN  AppendUnlisted(IF file \notin paths
                            THEN Append(listed, [path |-> file,
                                                 name |-> PathName(file)])
                            ELSE listed,
                            Tail(files))

(* faulty variant: the newest snapshot is dropped at the limit *)
save_state_dropping_newest(h, listed, cd) ==
    LET appended == Append(h, [data_files |-> listed, current_data |-> cd])
    IN  IF Len(appended) > HistoryLimit
        THEN SubSeq(appended, 1, Len(appended) - 1)
        ELSE appended

(* save_state: the history after the snapshot of the list and the data *)
save_state(h, listed, cd) ==
    LET appended == Append(h, [data_files |-> listed, current_data |-> cd])
    IN  IF Len(appended) > HistoryLimit THEN Tail(appended) ELSE appended

widgets == <<in_disp, in_force, algorithm, smoothness, num_points, plot_style,
            show_original_points, filter_first_loop, skeleton_method,
            direction, ductility_method>>

InitFiles ==
    /\ AnalysisIdle
    /\ SmoothIdle
    /\ pc = "window"
    /\ in_disp = <<>>
    /\ in_force = <<>>
    /\ out = [data_files |-> <<>>, history |-> <<>>]

(* import_files with a selection *)
ImportFiles ==
    \E files \in Selections :
    \E listed \in {AppendUnlisted(out.data_files, files)} :
        /\ out' = [data_files |-> listed,
                   history |-> save_state(out.history, listed, current_data)]
        /\ Turns(out'.history) <= MaxTurns
        /\ pc' = "import_files"
        /\ UNCHANGED <<widgets, canvas, current_data, hysteresis_loops,
                       skeleton_curve, indices>>

(* clear_files, the question answered with Yes *)
ClearFiles ==
    /\ out.data_files # <<>>
    /\ current_data' = NoData
    /\ canvas' = <<>>
    /\ out' = [data_files |-> <<>>,
               history |-> save_state(out.history, <<>>, NoData)]
    /\ Turns(out'.history) <= MaxTurns
    /\ pc' = "clear_files"
    /\ UNCHANGED <<widgets, hysteresis_loops, skeleton_curve, indices>>

(* delete_selected with a current row in the list *)
DeleteSelected ==
    \E current_row \in 1..Len(out.data_files) :
    \E listed \in {SubSeq(out.data_files, 1, current_row - 1) \o
                   SubSeq(out.data_files, current_row + 1,
                          Len(out.data_files))} :
        LET deleted_file == out.data_files[current_row].name
            shown == /\ current_data.loaded
                     /\ PathName(current_data.file) = deleted_file
        IN  /\ current_data' = IF shown THEN NoData ELSE current_data
            /\ canvas' = IF shown THEN <<>> ELSE canvas
            /\ out' = [data_files |-> listed,
                       history |-> save_state(out.history, listed,
                                              current_data')]
            /\ Turns(out'.history) <= MaxTurns
            /\ pc' = "delete_selected"
            /\ UNCHANGED <<widgets, hysteresis_loops, skeleton_curve, indices>>

(* undo *)
Undo ==
    /\ pc' = "undo"
    /\ UNCHANGED widgets
    /\ IF Len(out.history) > 1
       THEN LET popped == SubSeq(out.history, 1, Len(out.history) - 1)
                last_state == popped[Len(popped)]
            IN  /\ out' = [data_files |-> last_state.data_files,
                           history |-> popped]
                /\ IF last_state.current_data.loaded
                   THEN update_analysis(last_state.current_data,
                                        filter_first_loop, skeleton_method,
                                        direction, ductility_method)
                   ELSE /\ current_data' = last_state.current_data
                        /\ canvas' = <<>>
                        /\ UNCHANGED <<hysteresis_loops, skeleton_curve,
                                       indices>>
       ELSE UNCHANGED <<out, canvas, current_data, hysteresis_loops,
                        skeleton_curve, indices>>

NextFiles ==
    \/ ImportFiles
    \/ ClearFiles
    \/ DeleteSelected
    \/ Undo

SpecFiles == InitFiles /\ [][NextFiles]_vars

Snapshot(listed, cd) == [data_files |-> listed, current_data |-> cd]

(* C29: the history never holds more than 30 snapshots; a handler that      *)
(* saves appends the snapshot of the new list and, at 30 snapshots, drops   *)
(* the oldest; undo changes nothing when the history holds one snapshot or  *)
(* none, and otherwise drops the newest snapshot and restores the file      *)
(* list of the snapshot before it                                          *)
C29_HistoryBoundedUndoRestores ==
    [][/\ Len(out'.history) <= HistoryLimit
       /\ pc' \in {"import_files", "clear_files", "delete_selected"} =>
             out'.history =
                 (IF Len(out.history) = HistoryLimit
                  THEN Tail(out.history) ELSE out.history)
                     \o <<Snapshot(out'.data_files, current_data')>>
       /\ pc' = "undo" =>
             IF Len(out.history) <= 1
             THEN UNCHANGED <<out, canvas, analysis>>
             ELSE /\ out'.history =
                         SubSeq(out.history, 1, Len(out.history) - 1)
                  /\ out'.data_files =
                         out.history[Len(out.history) - 1].data_files]_vars

(* a history of 30 snapshots, the newest that of a deletion, after an undo: *)
(* 29 snapshots are left and the list has its two entries again            *)
C29_Witness ==
    /\ pc = "undo"
    /\ Len(out.history) = HistoryLimit - 1
    /\ Turns(out.history) = 0
    /\ Len(out.data_files) = 2
    /\ out.data_files = out.history[HistoryLimit - 1].data_files

NoRepeatedPath(listed) ==
    \A i, j \in 1..Len(listed) : i # j => listed[i].path # listed[j].path

IsPrefix(s, t) == Len(s) <= Len(t) /\ s = SubSeq(t, 1, Len(s))

(* C30: the file list never holds two entries with the same path, nor does  *)
(* a snapshot; an import leaves the entries listed before it in place and   *)
(* appends only paths that were not listed                                 *)
C30_NoRepeatedPath ==
    /\ pc # "window" =>
          /\ NoRepeatedPath(out.data_files)
          /\ \A k \in 1..Len(out.history) :
                NoRepeatedPath(out.history[k].data_files)
          /\ out.history # <<>> =>
                out.history[Len(out.history)].data_files = out.data_files
    /\ pc = "import_files" /\ Len(out.history) >= 2 /\
       Len(out.history) < HistoryLimit =>
          IsPrefix(out.history[Len(out.history) - 1].data_files,
                   out.data_files)

(* an import of listed paths only: the list of two entries is the list of   *)
(* the snapshot before                                                     *)
C30_Witness ==
    /\ pc = "import_files"
    /\ Len(out.history) = 3
    /\ Len(out.history[1].data_files) = 1
    /\ Len(out.data_files) = 2
    /\ out.history[2].data_files = out.data_files
    /\ out.history[3].data_files = out.data_files
    /\ out.data_files[1].name = out.data_files[2].name

====
